---- MODULE Spec2Model ----
(***************************************************************************)
(* A model of python-dtl: the expression IR (ir.py), the AST -> IR         *)
(* lowering (ast_to_ir.py), the mapping algebra (mappings.py), the         *)
(* scheduler (ir_to_cmd.py) and the evaluator (eval.py).                   *)
(*                                                                         *)
(* IR expressions have identity, not structure (dataclass eq=False): an   *)
(* expression is its position in the node table `nodes`, 0 is "no node".  *)
(***************************************************************************)
EXTENDS Integers, Sequences, FiniteSets, TLC

\* ---------------------------------------------------------------- bounds

\* Most rows an imported table holds.
MaxRows == 2
\* Nodes of the abstract expression DAGs that traverse_depth_first is run on.
NumNodes == 3
\* Most roots handed to traverse_depth_first on the abstract DAGs.
MaxRoots == 2
\* Arrays of the abstract mapping graphs that _merge_mappings is run on.
NumArrays == 3
\* The most dependencies any ir.dependencies() handler yields.
MaxDeps == 2

\* ------------------------------------------------------------- utilities

None == "<None>"

Last(s) == s[Len(s)]

Front(s) == SubSeq(s, 1, Len(s) - 1)

Range(s) == {s[i] : i \in 1..Len(s)}

Min(S) == CHOOSE x \in S : \A y \in S : x <= y

Max(S) == CHOOSE x \in S : \A y \in S : x >= y

RECURSIVE SeqConcat(_)
SeqConcat(ss) == IF ss = <<>> THEN <<>> ELSE Head(ss) \o SeqConcat(Tail(ss))

RECURSIVE SeqsUpTo(_, _)
SeqsUpTo(S, n) ==
    IF n = 0 THEN {<<>>}
    ELSE LET shorter == SeqsUpTo(S, n - 1)
         IN  shorter \cup {Append(s, x) : s \in {t \in shorter : Len(t) = n - 1}, x \in S}

SeqsOfLen(S, n) == {s \in SeqsUpTo(S, n) : Len(s) = n}

\* list(set): the iteration order of a Python set of identity-hashed objects
\* is not fixed by the program; the model draws it from two orders.
SetToSeqAsc(S) ==
    [i \in 1..Cardinality(S) |-> CHOOSE x \in S : Cardinality({y \in S : y < x}) = i - 1]

SetToSeqDesc(S) ==
    [i \in 1..Cardinality(S) |-> CHOOSE x \in S : Cardinality({y \in S : y > x}) = i - 1]

SetToSeq(S, ord) == IF ord = "asc" THEN SetToSeqAsc(S) ELSE SetToSeqDesc(S)

\* ------------------------------------------------------------------- IR

Expression ==
    [kind |-> "", dtype |-> "", shape |-> 0, source |-> 0, mask |-> 0,
     indexes |-> 0, shape_a |-> 0, shape_b |-> 0, source_a |-> 0,
     source_b |-> 0, value |-> 0, location |-> "", name |-> ""]

ImportShapeExpression(location) ==
    [Expression EXCEPT !.kind = "ImportShape", !.location = location]

WhereShapeExpression(mask) ==
    [Expression EXCEPT !.kind = "WhereShape", !.mask = mask]

JoinShapeExpression(shape_a, shape_b) ==
    [Expression EXCEPT !.kind = "JoinShape", !.shape_a = shape_a, !.shape_b = shape_b]

BooleanLiteralExpression(dtype, shape, value) ==
    [Expression EXCEPT !.kind = "BooleanLiteral", !.dtype = dtype, !.shape = shape,
                       !.value = value]

IntegerLiteralExpression(dtype, shape, value) ==
    [Expression EXCEPT !.kind = "IntegerLiteral", !.dtype = dtype, !.shape = shape,
                       !.value = value]

ImportExpression(dtype, shape, location, name) ==
    [Expression EXCEPT !.kind = "Import", !.dtype = dtype, !.shape = shape,
                       !.location = location, !.name = name]

WhereExpression(dtype, shape, source, mask) ==
    [Expression EXCEPT !.kind = "Where", !.dtype = dtype, !.shape = shape,
                       !.source = source, !.mask = mask]

PickExpression(dtype, shape, source, indexes) ==
    [Expression EXCEPT !.kind = "Pick", !.dtype = dtype, !.shape = shape,
                       !.source = source, !.indexes = indexes]

RangeExpression(dtype, shape) ==
    [Expression EXCEPT !.kind = "Range", !.dtype = dtype, !.shape = shape]

JoinLeftExpression(dtype, shape, shape_a, shape_b) ==
    [Expression EXCEPT !.kind = "JoinLeft", !.dtype = dtype, !.shape = shape,
                       !.shape_a = shape_a, !.shape_b = shape_b]

JoinRightExpression(dtype, shape, shape_a, shape_b) ==
    [Expression EXCEPT !.kind = "JoinRight", !.dtype = dtype, !.shape = shape,
                       !.shape_a = shape_a, !.shape_b = shape_b]

\* Add, Subtract, Multiply, Divide and EqualTo share one layout.
BinaryExpression(kind, dtype, shape, source_a, source_b) ==
    [Expression EXCEPT !.kind = kind, !.dtype = dtype, !.shape = shape,
                       !.source_a = source_a, !.source_b = source_b]

ShapeKinds == {"ImportShape", "WhereShape", "JoinShape"}

LiteralKinds == {"BooleanLiteral", "IntegerLiteral"}

BinaryKinds == {"Add", "Subtract", "Multiply", "Divide", "EqualTo"}

IsShapeExpression(node) == node.kind \in ShapeKinds

IsArrayExpression(node) == node.kind # "" /\ node.kind \notin ShapeKinds

\* The dependencies of a Range: its shape.
RangeDependencies(node) == <<node.shape>>

\* Dependencies that leave out the operands of a binary operation.
dependencies_without_operands(node) ==
    CASE node.kind = "ImportShape" -> <<>>
      [] node.kind = "WhereShape" -> <<node.mask>>
      [] node.kind = "JoinShape" -> <<node.shape_a, node.shape_b>>
      [] node.kind \in LiteralKinds -> <<node.shape>>
      [] node.kind = "Import" -> <<>>
      [] node.kind = "Where" -> <<node.mask, node.source>>
      [] node.kind = "Pick" -> <<node.indexes, node.source>>
      [] node.kind = "Range" -> RangeDependencies(node)
      [] node.kind \in {"JoinLeft", "JoinRight"} -> <<node.shape_a, node.shape_b>>
      [] node.kind \in BinaryKinds -> <<>>

\* Dependencies that leave out the shape of a literal.
dependencies_without_literal_shape(node) ==
    CASE node.kind = "ImportShape" -> <<>>
      [] node.kind = "WhereShape" -> <<node.mask>>
      [] node.kind = "JoinShape" -> <<node.shape_a, node.shape_b>>
      [] node.kind \in LiteralKinds -> <<>>
      [] node.kind = "Import" -> <<>>
      [] node.kind = "Where" -> <<node.mask, node.source>>
      [] node.kind = "Pick" -> <<node.indexes, node.source>>
      [] node.kind = "Range" -> RangeDependencies(node)
      [] node.kind \in {"JoinLeft", "JoinRight"} -> <<node.shape_a, node.shape_b>>
      [] node.kind \in BinaryKinds -> <<node.source_a, node.source_b>>

\* ir.dependencies: the direct dependencies of a node, in the order yielded.
dependencies(node) ==
    CASE node.kind = "ImportShape" -> <<>>
      [] node.kind = "WhereShape" -> <<node.mask>>
      [] node.kind = "JoinShape" -> <<node.shape_a, node.shape_b>>
      [] node.kind \in LiteralKinds -> <<node.shape>>
      [] node.kind = "Import" -> <<>>
      [] node.kind = "Where" -> <<node.mask, node.source>>
      [] node.kind = "Pick" -> <<node.indexes, node.source>>
      [] node.kind = "Range" -> RangeDependencies(node)
      [] node.kind \in {"JoinLeft", "JoinRight"} -> <<node.shape_a, node.shape_b>>
      [] node.kind \in BinaryKinds -> <<node.source_a, node.source_b>>

\* The dependency function of a node table.
DepsOf(ns) == [e \in 1..Len(ns) |-> dependencies(ns[e])]

\* ------------------------------------------------- traverse_depth_first

\* The local state of the generator: `visited`, `stack` (a list of frames),
\* the expressions yielded so far, and the loop the control is in.
TraverseStart(roots) ==
    [pc |-> "expand", stack |-> <<roots>>, visited |-> {}, out |-> <<>>]

\* `while stack[-1]:` with a non-empty top frame: push the unvisited
\* dependencies of the last expression of the top frame.
CanExpand(t) == t.pc = "expand" /\ Last(t.stack) # <<>>

UnvisitedDeps(D, t, next) == SelectSeq(D[next], LAMBDA dep : dep \notin t.visited)

Expand(D, t) ==
    LET next == Last(Last(t.stack))
    IN  [t EXCEPT !.stack = Append(t.stack, UnvisitedDeps(D, t, next))]

\* `while stack[-1]:` with an empty top frame: fall through to the consumer.
CanExpandDone(t) == t.pc = "expand" /\ Last(t.stack) = <<>>

ExpandDone(t) == [t EXCEPT !.pc = "consume"]

\* `if stack[-1]: break`, then `while stack:` holds and expansion resumes.
CanConsumeBreak(t) == t.pc = "consume" /\ Last(t.stack) # <<>>

ConsumeBreak(t) == [t EXCEPT !.pc = "expand"]

\* The top frame is complete: pop it; the expression it belongs to is the
\* last of the frame below, which is popped and yielded unless visited.
CanConsumePop(t) == t.pc = "consume" /\ Last(t.stack) = <<>>

\* A generator that yields what it pops, visited or not.
YieldAlways(t, next) == Append(t.out, next)

YieldUnvisited(t, next) == IF next \notin t.visited THEN Append(t.out, next) ELSE t.out

ConsumePop(t) ==
    LET popped == Front(t.stack)
    IN  IF popped = <<>>
        THEN [t EXCEPT !.pc = "done", !.stack = popped]
        ELSE LET next == Last(Last(popped))
             IN  [t EXCEPT !.stack = [popped EXCEPT ![Len(popped)] = Front(Last(popped))],
                           !.out = YieldUnvisited(t, next),
                           !.visited = t.visited \cup {next}]

TraverseStep(D, t) ==
    CASE CanExpand(t) -> Expand(D, t)
      [] CanExpandDone(t) -> ExpandDone(t)
      [] CanConsumeBreak(t) -> ConsumeBreak(t)
      [] CanConsumePop(t) -> ConsumePop(t)

\* 2^n steps of the generator (fewer when it finishes first).
RECURSIVE TraverseSteps(_, _, _)
TraverseSteps(D, t, n) ==
    IF t.pc = "done" THEN t
    ELSE IF n = 0 THEN TraverseStep(D, t)
    ELSE TraverseSteps(D, TraverseSteps(D, t, n - 1), n - 1)

RECURSIVE TraverseRun(_, _, _)
TraverseRun(D, t, n) ==
    LET u == TraverseSteps(D, t, n)
    IN  IF u.pc = "done" THEN u.out ELSE TraverseRun(D, u, n + 1)

\* The whole generator, run to exhaustion over a dependency function D.
traverse_depth_first(D, roots) == TraverseRun(D, TraverseStart(roots), 0)

\* -------------------------------------------------------- array runtime

\* A runtime array is a typed list; a table is an ordered list of named
\* arrays of one length.
Array(type, data) == [type |-> type, data |-> data]

NamedArray(name, array) == [name |-> name, array |-> array]

TableNames(table) == [i \in 1..Len(table) |-> table[i].name]

TableColumn(table, name) ==
    table[CHOOSE i \in 1..Len(table) : table[i].name = name].array

\* len(table): the number of rows.
TableLen(table) == IF table = <<>> THEN 0 ELSE Len(table[1].array.data)

\* pyarrow.compute.filter(source, mask)
pac_filter_ok(source, mask) == mask.type = "bool" /\ Len(mask.data) = Len(source.data)

\* A filter that keeps the first sum(mask) rows whatever the mask marks.
pac_filter_leading(source, mask) ==
    Array(source.type,
          SubSeq(source.data, 1, Cardinality({i \in 1..Len(mask.data) : mask.data[i]})))

pac_filter(source, mask) ==
    LET F[i \in 0..Len(source.data)] ==
            IF i = 0 THEN <<>>
            ELSE IF mask.data[i] THEN Append(F[i - 1], source.data[i]) ELSE F[i - 1]
    IN  Array(source.type, F[Len(source.data)])

\* pyarrow.compute.take(source, indexes)
pac_take_ok(source, indexes) ==
    /\ indexes.type = "int64"
    /\ \A i \in 1..Len(indexes.data) :
           indexes.data[i] >= 0 /\ indexes.data[i] < Len(source.data)

pac_take(source, indexes) ==
    Array(source.type, [i \in 1..Len(indexes.data) |-> source.data[indexes.data[i] + 1]])

\* pyarrow.compute.sum(mask).as_py(): the number of true entries of a
\* boolean array, the arithmetic sum of an integer one.
RECURSIVE SumSeq(_)
SumSeq(data) == IF data = <<>> THEN 0 ELSE Head(data) + SumSeq(Tail(data))

pac_sum(array) ==
    IF array.type = "bool"
    THEN Cardinality({i \in 1..Len(array.data) : array.data[i]})
    ELSE SumSeq(array.data)

\* Integer division of the runtime truncates toward zero.
TruncDiv(x, y) ==
    IF (x >= 0) = (y > 0)
    THEN (IF x >= 0 THEN x ELSE -x) \div (IF y > 0 THEN y ELSE -y)
    ELSE -((IF x >= 0 THEN x ELSE -x) \div (IF y > 0 THEN y ELSE -y))

pac_arith_ok(kind, a, b) ==
    /\ a.type = "int64" /\ b.type = "int64"
    /\ Len(a.data) = Len(b.data)
    /\ kind = "Divide" => \A i \in 1..Len(b.data) : b.data[i] # 0

pac_arith(kind, a, b) ==
    Array("int64",
          [i \in 1..Len(a.data) |->
              CASE kind = "Add" -> a.data[i] + b.data[i]
                [] kind = "Subtract" -> a.data[i] - b.data[i]
                [] kind = "Multiply" -> a.data[i] * b.data[i]
                [] kind = "Divide" -> TruncDiv(a.data[i], b.data[i])])

pac_equal_ok(a, b) == a.type = b.type /\ Len(a.data) = Len(b.data)

pac_equal(a, b) == Array("bool", [i \in 1..Len(a.data) |-> a.data[i] = b.data[i]])

\* ------------------------------------------------------- eval_expression

\* What the handler of a node reads from the context: shape-cache keys and
\* array-cache keys.  A key that is missing is a KeyError.
ShapeReads(node) ==
    CASE node.kind = "JoinShape" -> {node.shape_a, node.shape_b}
      [] node.kind \in LiteralKinds \cup {"Range"} -> {node.shape}
      [] node.kind \in {"JoinLeft", "JoinRight"} -> {node.shape_a, node.shape_b}
      [] OTHER -> {}

ArrayReads(node) ==
    CASE node.kind = "WhereShape" -> {node.mask}
      [] node.kind = "Where" -> {node.source, node.mask}
      [] node.kind = "Pick" -> {node.source, node.indexes}
      [] node.kind \in BinaryKinds -> {node.source_a, node.source_b}
      [] OTHER -> {}

ReadsPresent(node, ctx) ==
    /\ ShapeReads(node) \subseteq DOMAIN ctx.shapes
    /\ ArrayReads(node) \subseteq DOMAIN ctx.arrays

eval_import_shape_expression(node, ctx) == TableLen(ctx.importer[node.location])

eval_where_shape_expression(node, ctx) == pac_sum(ctx.arrays[node.mask])

\* A join shape that adds the operand shapes.
eval_join_shape_expression_sum(node, ctx) == ctx.shapes[node.shape_a] + ctx.shapes[node.shape_b]

eval_join_shape_expression(node, ctx) == ctx.shapes[node.shape_a] * ctx.shapes[node.shape_b]

\* pa.array([expression.value] * shape, type=...); a Boolean literal keeps
\* its value as 0 or 1 in the node.
eval_literal_expression(node, ctx) ==
    IF node.kind = "BooleanLiteral"
    THEN Array("bool", [i \in 1..ctx.shapes[node.shape] |-> node.value = 1])
    ELSE Array("int64", [i \in 1..ctx.shapes[node.shape] |-> node.value])

eval_import_expression(node, ctx) == TableColumn(ctx.importer[node.location], node.name)

eval_where_expression(node, ctx) == pac_filter(ctx.arrays[node.source], ctx.arrays[node.mask])

eval_pick_expression(node, ctx) == pac_take(ctx.arrays[node.source], ctx.arrays[node.indexes])

eval_range_expression(node, ctx) ==
    Array("int64", [i \in 1..ctx.shapes[node.shape] |-> i - 1])

\* The left indexes cycling through range(len_a) instead of repeating.
eval_join_left_expression_cycling(node, ctx) ==
    LET len_a == ctx.shapes[node.shape_a]
        len_b == ctx.shapes[node.shape_b]
    IN  Array("int64", [k \in 1..(len_a * len_b) |-> (k - 1) % len_a])

\* [x for x in range(len_a) for _ in range(len_b)]
eval_join_left_expression(node, ctx) ==
    LET len_a == ctx.shapes[node.shape_a]
        len_b == ctx.shapes[node.shape_b]
    IN  Array("int64", [k \in 1..(len_a * len_b) |-> (k - 1) \div len_b])

\* The right indexes running down from len_b - 1 in each cycle.
eval_join_right_expression_descending(node, ctx) ==
    LET len_a == ctx.shapes[node.shape_a]
        len_b == ctx.shapes[node.shape_b]
    IN  Array("int64", [k \in 1..(len_a * len_b) |-> len_b - 1 - ((k - 1) % len_b)])

\* [x for _ in range(len_a) for x in range(len_b)]
eval_join_right_expression(node, ctx) ==
    LET len_a == ctx.shapes[node.shape_a]
        len_b == ctx.shapes[node.shape_b]
    IN  Array("int64", [k \in 1..(len_a * len_b) |-> (k - 1) % len_b])

eval_binary_expression(node, ctx) ==
    IF node.kind = "EqualTo"
    THEN pac_equal(ctx.arrays[node.source_a], ctx.arrays[node.source_b])
    ELSE pac_arith(node.kind, ctx.arrays[node.source_a], ctx.arrays[node.source_b])

\* Whether the handler of `node` returns rather than raises.
eval_expression_ok(node, ctx) ==
    /\ ReadsPresent(node, ctx)
    /\ CASE node.kind \in {"ImportShape", "Import"} -> node.location \in DOMAIN ctx.importer
         [] node.kind = "Where" -> pac_filter_ok(ctx.arrays[node.source], ctx.arrays[node.mask])
         [] node.kind = "Pick" -> pac_take_ok(ctx.arrays[node.source], ctx.arrays[node.indexes])
         [] node.kind = "EqualTo" ->
                pac_equal_ok(ctx.arrays[node.source_a], ctx.arrays[node.source_b])
         [] node.kind \in BinaryKinds \ {"EqualTo"} ->
                pac_arith_ok(node.kind, ctx.arrays[node.source_a], ctx.arrays[node.source_b])
         [] OTHER -> TRUE

\* The value the handler of `node` stores under the node's key.
eval_expression(node, ctx) ==
    CASE node.kind = "ImportShape" -> eval_import_shape_expression(node, ctx)
      [] node.kind = "WhereShape" -> eval_where_shape_expression(node, ctx)
      [] node.kind = "JoinShape" -> eval_join_shape_expression(node, ctx)
      [] node.kind \in LiteralKinds -> eval_literal_expression(node, ctx)
      [] node.kind = "Import" -> eval_import_expression(node, ctx)
      [] node.kind = "Where" -> eval_where_expression(node, ctx)
      [] node.kind = "Pick" -> eval_pick_expression(node, ctx)
      [] node.kind = "Range" -> eval_range_expression(node, ctx)
      [] node.kind = "JoinLeft" -> eval_join_left_expression(node, ctx)
      [] node.kind = "JoinRight" -> eval_join_right_expression(node, ctx)
      [] node.kind \in BinaryKinds -> eval_binary_expression(node, ctx)

\* ------------------------------------------------------------------ AST

\* nodes.py.  `start` is the source position of a node, which tells two
\* nodes of one script apart.  An optional clause is a list of at most one
\* element; an optional name is the name or None.
ColumnReferenceExpression(table_name, column_name) ==
    [type |-> "ColumnReference", table_name |-> table_name, column_name |-> column_name]

LiteralExpression(literal, value) ==
    [type |-> "Literal", literal |-> literal, value |-> value]

FunctionCallExpression(name, arguments) ==
    [type |-> "FunctionCall", name |-> name, arguments |-> arguments]

BinaryOperatorExpression(type, left, right) ==
    [type |-> type, left |-> left, right |-> right]

WildcardColumnBinding == [type |-> "Wildcard"]

ImplicitColumnBinding(expression) == [type |-> "Implicit", expression |-> expression]

AliasedColumnBinding(expression, alias) ==
    [type |-> "Aliased", expression |-> expression, alias |-> alias]

TableBinding(expression, alias) == [expression |-> expression, alias |-> alias]

JoinClause(start, table, constraint, predicate) ==
    [start |-> start, table |-> table, constraint |-> constraint, predicate |-> predicate]

SelectExpression(start, columns, source, join, where, group_by) ==
    [type |-> "Select", start |-> start, columns |-> columns, source |-> source,
     join |-> join, where |-> where, group_by |-> group_by]

ImportTableExpression(start, location) ==
    [type |-> "Import", start |-> start, location |-> location]

TableReferenceExpression(start, name) ==
    [type |-> "TableReference", start |-> start, name |-> name]

AssignmentStatement(start, target, expression) ==
    [type |-> "Assignment", start |-> start, target |-> target, expression |-> expression]

ExportStatement(start, expression, location) ==
    [type |-> "Export", start |-> start, expression |-> expression, location |-> location]

\* ------------------------------------------------------------- lowering

ScopeColumn(name, namespaces, expression) ==
    [name |-> name, namespaces |-> namespaces, expression |-> expression]

Column(name, expression) == [name |-> name, expression |-> expression]

TraceTable(ast_node, level, columns) ==
    [type |-> "TraceTable", ast_node |-> ast_node, level |-> level,
     export_as |-> "", columns |-> columns]

ExportTable(export_as, columns) ==
    [type |-> "ExportTable", ast_node |-> 0, level |-> "",
     export_as |-> export_as, columns |-> columns]

\* The table names of the modelled scripts, in sorted() order, and the
\* f"{namespace}.{name}" strings over them.
SortedTableNames == <<"", "a", "b", "output">>

LeastString(S) ==
    SortedTableNames[Min({i \in 1..Len(SortedTableNames) : SortedTableNames[i] \in S})]

Qualified(namespace, name) ==
    CASE namespace = "" -> "." \o name
      [] namespace = "a" -> "a." \o name
      [] namespace = "b" -> "b." \o name
      [] OTHER -> "output." \o name

_qualified_column_name(column) ==
    IF None \in column.namespaces
    THEN column.name
    ELSE Qualified(LeastString(column.namespaces), column.name)

\* _strip_namespaces raises unless every column is reachable unqualified.
_strip_namespaces_ok(columns) == \A i \in 1..Len(columns) : None \in columns[i].namespaces

_strip_namespaces(columns) ==
    [i \in 1..Len(columns) |-> ScopeColumn(columns[i].name, {None}, columns[i].expression)]

\* Context.trace / Context.export: the table appended for a scope.
TableColumns(scope) ==
    [i \in 1..Len(scope) |-> Column(_qualified_column_name(scope[i]), scope[i].expression)]

trace(tables, scope, ast_node, level) ==
    Append(tables, TraceTable(ast_node, level, TableColumns(scope)))

export(tables, scope, name) == Append(tables, ExportTable(name, TableColumns(scope)))

\* The result of lowering an expression: the node table, grown, and the
\* expression compiled to; `error` names the exception raised, if any.
Compiled(ns, expression) == [nodes |-> ns, expression |-> expression, error |-> ""]

Raised(ns, error) == [nodes |-> ns, expression |-> 0, error |-> error]

NewNode(ns, node) == Compiled(Append(ns, node), Len(ns) + 1)

MatchingColumns(scope, namespace, name) ==
    {i \in 1..Len(scope) : namespace \in scope[i].namespaces /\ name = scope[i].name}

\* A lookup that returns the last matching column of the scope.
compile_column_reference_expression_last(expr, scope, ns) ==
    IF MatchingColumns(scope, expr.table_name, expr.column_name) = {}
    THEN Raised(ns, "could not find")
    ELSE Compiled(ns, scope[Max(MatchingColumns(scope, expr.table_name, expr.column_name))].expression)

compile_column_reference_expression(expr, scope, ns) ==
    IF MatchingColumns(scope, expr.table_name, expr.column_name) = {}
    THEN Raised(ns, "could not find")
    ELSE Compiled(ns, scope[Min(MatchingColumns(scope, expr.table_name, expr.column_name))].expression)

\* A literal that takes the shape of the first import of the script.
compile_literal_expression_first_shape(expr, scope, ns) ==
    IF scope = <<>>
    THEN Raised(ns, "IndexError")
    ELSE CASE expr.literal = "Boolean" ->
                  NewNode(ns, BooleanLiteralExpression("BOOL", 1, expr.value))
           [] expr.literal = "Integer" ->
                  NewNode(ns, IntegerLiteralExpression("INT64", 1, expr.value))
           [] OTHER -> Raised(ns, "NotImplementedError")

\* The literals of the modelled scripts are Boolean and Integer ones.
compile_literal_expression(expr, scope, ns) ==
    IF scope = <<>>
    THEN Raised(ns, "IndexError")
    ELSE LET shape == ns[scope[1].expression].shape
         IN  CASE expr.literal = "Boolean" ->
                      NewNode(ns, BooleanLiteralExpression("BOOL", shape, expr.value))
               [] expr.literal = "Integer" ->
                      NewNode(ns, IntegerLiteralExpression("INT64", shape, expr.value))
               [] OTHER -> Raised(ns, "NotImplementedError")

\* The dtype and shape checks shared by add(), + - * / and =, once both
\* operands are compiled.
CheckedBinary(kind, left, right) ==
    IF right.error # "" THEN right
    ELSE IF right.nodes[left.expression].dtype # right.nodes[right.expression].dtype
    THEN Raised(right.nodes, "Type error")
    ELSE IF right.nodes[left.expression].shape # right.nodes[right.expression].shape
    THEN Raised(right.nodes, "Shape mismatch error")
    ELSE NewNode(right.nodes,
                 BinaryExpression(kind,
                                  IF kind = "EqualTo" THEN "BOOL"
                                  ELSE right.nodes[left.expression].dtype,
                                  right.nodes[left.expression].shape,
                                  left.expression, right.expression))

RECURSIVE compile_expression(_, _, _)

\* The second operand is compiled after the first, on the node table the
\* first left.
CompileOperands(kind, second, scope, left) ==
    IF left.error # "" THEN left
    ELSE CheckedBinary(kind, left, compile_expression(second, scope, left.nodes))

compile_function_call_expression(expr, scope, ns) ==
    IF expr.name # "add"
    THEN Raised(ns, "NotImplementedError")
    ELSE IF Len(expr.arguments) # 2
    THEN Raised(ns, "AssertionError")
    ELSE CompileOperands("Add", expr.arguments[2], scope,
                         compile_expression(expr.arguments[1], scope, ns))

compile_binary_expression(expr, scope, ns) ==
    CompileOperands(expr.type, expr.right, scope, compile_expression(expr.left, scope, ns))

compile_expression(expr, scope, ns) ==
    CASE expr.type = "ColumnReference" -> compile_column_reference_expression(expr, scope, ns)
      [] expr.type = "Literal" -> compile_literal_expression(expr, scope, ns)
      [] expr.type = "FunctionCall" -> compile_function_call_expression(expr, scope, ns)
      [] expr.type \in BinaryKinds -> compile_binary_expression(expr, scope, ns)
      [] OTHER -> Raised(ns, "NotImplementedError")

\* expression_name: the implicit name of an unaliased select-list entry.
expression_name_error(expr) ==
    IF expr.type # "ColumnReference" THEN "no name could be derived for expression"
    ELSE IF expr.table_name # None THEN "AssertionError"
    ELSE ""

expression_name(expr) == expr.column_name

\* table_expression_name
table_expression_name(expr) == IF expr.type = "TableReference" THEN expr.name ELSE ""

\* The result of lowering a table expression: node table and program
\* tables, grown, and the scope; `error` names the exception raised.
Lowered(ns, tables, scope) == [nodes |-> ns, tables |-> tables, scope |-> scope, error |-> ""]

Failed(ns, tables, error) == [nodes |-> ns, tables |-> tables, scope |-> <<>>, error |-> error]

compile_reference_table_expression(expr, c) ==
    IF expr.name \notin DOMAIN c.bindings
    THEN Failed(c.nodes, c.tables, "KeyError")
    ELSE LET src_scope == c.bindings[expr.name]
             result == [i \in 1..Len(src_scope) |->
                           ScopeColumn(src_scope[i].name, {None}, src_scope[i].expression)]
         IN  Lowered(c.nodes, trace(c.tables, result, expr.start, "TABLE_EXPRESSION"), result)

\* _arrow_type_to_ir_type
ArrowTypes == {"bool", "int32", "int64", "float32", "float64", "string", "binary"}

_arrow_type_to_ir_type(arrow_type) ==
    CASE arrow_type = "bool" -> "BOOL"
      [] arrow_type = "int32" -> "INT32"
      [] arrow_type = "int64" -> "INT64"
      [] arrow_type \in {"float32", "float64"} -> "DOUBLE"
      [] arrow_type = "string" -> "TEXT"
      [] arrow_type = "binary" -> "BYTES"

compile_import_table_expression(expr, c) ==
    IF expr.location \notin DOMAIN c.schemas
    THEN Failed(c.nodes, c.tables, "KeyError")
    ELSE LET schema == c.schemas[expr.location]
             shape == Len(c.nodes) + 1
             column_exprs ==
                 [i \in 1..Len(schema) |->
                     ImportExpression(_arrow_type_to_ir_type(schema[i].type), shape,
                                      expr.location, schema[i].name)]
             new_scope ==
                 [i \in 1..Len(schema) |-> ScopeColumn(schema[i].name, {None}, shape + i)]
         IN  IF \E i \in 1..Len(schema) : schema[i].type \notin ArrowTypes
             THEN Failed(c.nodes, c.tables, "KeyError")
             ELSE Lowered(Append(c.nodes, ImportShapeExpression(expr.location)) \o column_exprs,
                          trace(c.tables, new_scope, expr.start, "TABLE_EXPRESSION"),
                          new_scope)

\* compile_column_binding: the scope columns a select-list entry yields.
Bound(ns, columns) == [nodes |-> ns, error |-> "", columns |-> columns]

Unbound(ns, error) == [nodes |-> ns, error |-> error, columns |-> <<>>]

compile_wildcard_column_binding(binding, scope, ns) ==
    Bound(ns, [i \in 1..Len(scope) |->
                  ScopeColumn(scope[i].name, {None}, scope[i].expression)])

\* The column named `name` for a compiled select-list expression.
NamedColumn(name_error, name, column_expr) ==
    IF column_expr.error # "" THEN Unbound(column_expr.nodes, column_expr.error)
    ELSE IF name_error # "" THEN Unbound(column_expr.nodes, name_error)
    ELSE Bound(column_expr.nodes, <<ScopeColumn(name, {None}, column_expr.expression)>>)

compile_plain_column_binding(binding, scope, ns) ==
    NamedColumn(expression_name_error(binding.expression),
                expression_name(binding.expression),
                compile_expression(binding.expression, scope, ns))

compile_aliased_column_binding(binding, scope, ns) ==
    NamedColumn("", binding.alias, compile_expression(binding.expression, scope, ns))

compile_column_binding(binding, scope, ns) ==
    CASE binding.type = "Wildcard" -> compile_wildcard_column_binding(binding, scope, ns)
      [] binding.type = "Implicit" -> compile_plain_column_binding(binding, scope, ns)
      [] binding.type = "Aliased" -> compile_aliased_column_binding(binding, scope, ns)

\* A list of columns in place of the dict: every column is kept.
BindByNameAppend(columns, column) == Append(columns, column)

\* A dict in which a name already bound keeps its first column.
BindByNameOnce(columns, column) ==
    IF \E i \in 1..Len(columns) : columns[i].name = column.name
    THEN columns
    ELSE Append(columns, column)

\* columns_by_name[column.name] = column: a name already bound keeps its
\* place in the dict and takes the new column.
BindByName(columns, column) ==
    IF \E i \in 1..Len(columns) : columns[i].name = column.name
    THEN [i \in 1..Len(columns) |->
             IF columns[i].name = column.name THEN column ELSE columns[i]]
    ELSE Append(columns, column)

RECURSIVE BindAllByName(_, _)
BindAllByName(columns, new) ==
    IF new = <<>> THEN columns
    ELSE BindAllByName(BindByName(columns, Head(new)), Tail(new))

\* The loop over expr.columns of compile_select_table_expression.
RECURSIVE compile_column_bindings(_, _, _, _)

BindNext(bindings, scope, columns_by_name, bound) ==
    IF bound.error # "" THEN bound
    ELSE compile_column_bindings(Tail(bindings), scope, bound.nodes,
                                 BindAllByName(columns_by_name, bound.columns))

compile_column_bindings(bindings, scope, ns, columns_by_name) ==
    IF bindings = <<>>
    THEN Bound(ns, columns_by_name)
    ELSE BindNext(bindings, scope, columns_by_name,
                  compile_column_binding(Head(bindings), scope, ns))

\* The scope a JOIN builds over the index pair (left, right): every source
\* column picked through `left`, then every joined column picked through
\* `right`; the Pick nodes are numbered from base + 1.
PickedNodes(ns, src_scope, join_scope, shape, left, right) ==
    [i \in 1..(Len(src_scope) + Len(join_scope)) |->
        IF i <= Len(src_scope)
        THEN PickExpression(ns[src_scope[i].expression].dtype, shape,
                            src_scope[i].expression, left)
        ELSE PickExpression(ns[join_scope[i - Len(src_scope)].expression].dtype, shape,
                            join_scope[i - Len(src_scope)].expression, right)]

PickedScope(src_scope, join_scope, join_name, base) ==
    [i \in 1..(Len(src_scope) + Len(join_scope)) |->
        IF i <= Len(src_scope)
        THEN ScopeColumn(src_scope[i].name, src_scope[i].namespaces, base + i)
        ELSE ScopeColumn(join_scope[i - Len(src_scope)].name,
                         {join_name} \cup join_scope[i - Len(src_scope)].namespaces,
                         base + i)]

\* The end of the body of `for join_clause in expr.join`: the mask applied
\* to the index pair `full` = <<left_index_full, right_index_full>>, the
\* columns picked through the filtered indexes, and the INTERNAL trace table.
JoinFiltered(join_clause, src_scope, join_scope, join_name, full, traced_so_far, mask_expression) ==
    IF mask_expression.error # ""
    THEN Failed(mask_expression.nodes, traced_so_far, mask_expression.error)
    ELSE
    LET ns3 == mask_expression.nodes
        mask == mask_expression.expression
        shape == Len(ns3) + 1
        left_index == Len(ns3) + 2
        right_index == Len(ns3) + 3
        ns4 == ns3 \o <<WhereShapeExpression(mask),
                        WhereExpression("INDEX", shape, full[1], mask),
                        WhereExpression("INDEX", shape, full[2], mask)>>
        scope == PickedScope(src_scope, join_scope, join_name, Len(ns4))
    IN  Lowered(ns4 \o PickedNodes(ns4, src_scope, join_scope, shape, left_index, right_index),
                trace(traced_so_far, scope, join_clause.start, "INTERNAL"),
                scope)

\* The body of `for join_clause in expr.join`, after the joined table has
\* been lowered to `joined`.
JoinScopes(join_clause, src_scope, joined) ==
    IF src_scope = <<>> \/ joined.scope = <<>>
    THEN Failed(joined.nodes, joined.tables, "IndexError")
    ELSE
    LET join_scope == joined.scope
        join_name == IF join_clause.table.alias # None
                     THEN join_clause.table.alias
                     ELSE table_expression_name(join_clause.table.expression)
        ns0 == joined.nodes
        shape_a == ns0[src_scope[1].expression].shape
        shape_b == ns0[join_scope[1].expression].shape
        shape_full == Len(ns0) + 1
        left_index_full == Len(ns0) + 2
        right_index_full == Len(ns0) + 3
        ns1 == ns0 \o <<JoinShapeExpression(shape_a, shape_b),
                        JoinLeftExpression("INDEX", shape_full, shape_a, shape_b),
                        JoinRightExpression("INDEX", shape_full, shape_a, shape_b)>>
        ns2 == ns1 \o PickedNodes(ns1, src_scope, join_scope, shape_full,
                                  left_index_full, right_index_full)
        join_scope_full == PickedScope(src_scope, join_scope, join_name, Len(ns1))
    IN  IF join_clause.constraint # "On"
        THEN Failed(ns2, joined.tables, "NotImplementedError")
        ELSE JoinFiltered(join_clause, src_scope, join_scope, join_name,
                          <<left_index_full, right_index_full>>, joined.tables,
                          compile_expression(join_clause.predicate, join_scope_full, ns2))

\* `if expr.where is not None:`: every column filtered by the predicate.
Filtered(src_scope, traced_so_far, condition_expr) ==
    IF condition_expr.error # ""
    THEN Failed(condition_expr.nodes, traced_so_far, condition_expr.error)
    ELSE
    LET ns1 == condition_expr.nodes
        shape == Len(ns1) + 1
        column_exprs ==
            [i \in 1..Len(src_scope) |->
                WhereExpression(ns1[src_scope[i].expression].dtype, shape,
                                src_scope[i].expression, condition_expr.expression)]
        scope == [i \in 1..Len(src_scope) |->
                     ScopeColumn(src_scope[i].name, src_scope[i].namespaces, shape + i)]
    IN  Lowered(Append(ns1, WhereShapeExpression(condition_expr.expression)) \o column_exprs,
                traced_so_far, scope)

WhereScope(where, src_scope, lowered) ==
    Filtered(src_scope, lowered.tables, compile_expression(where, src_scope, lowered.nodes))

\* The tail of compile_select_table_expression: GROUP BY, the select list
\* and the STATEMENT trace table.
Selected(expr, traced_so_far, bound) ==
    IF bound.error # ""
    THEN Failed(bound.nodes, traced_so_far, bound.error)
    ELSE Lowered(bound.nodes, trace(traced_so_far, bound.columns, expr.start, "STATEMENT"),
                 bound.columns)

SelectColumns(expr, lowered) ==
    IF lowered.error # "" THEN lowered
    ELSE IF expr.group_by # None
    THEN Failed(lowered.nodes, lowered.tables, "NotImplementedError")
    ELSE Selected(expr, lowered.tables,
                  compile_column_bindings(expr.columns, lowered.scope, lowered.nodes, <<>>))

WithLowered(c, lowered) == [c EXCEPT !.nodes = lowered.nodes, !.tables = lowered.tables]

RECURSIVE compile_table_expression(_, _)

\* `for join_clause in expr.join`, from the scope built so far.
RECURSIVE compile_join_clauses(_, _, _)

JoinRest(join, c, scopes) ==
    IF scopes.error # "" THEN scopes ELSE compile_join_clauses(Tail(join), c, scopes)

JoinNext(join, c, src_scope, joined) ==
    IF joined.error # "" THEN joined
    ELSE JoinRest(join, c, JoinScopes(Head(join), src_scope, joined))

compile_join_clauses(join, c, lowered) ==
    IF join = <<>> THEN lowered
    ELSE JoinNext(join, c, lowered.scope,
                  compile_table_expression(Head(join).table.expression,
                                           WithLowered(c, lowered)))

\* The select's source lowered: its columns become reachable unqualified and
\* under the source's name; then the joins, the WHERE and the select list.
SelectJoined(expr, joined) ==
    IF joined.error # "" THEN joined
    ELSE SelectColumns(expr, IF expr.where # <<>>
                             THEN WhereScope(expr.where[1], joined.scope, joined)
                             ELSE joined)

SelectFrom(expr, c, from) ==
    IF from.error # "" THEN from
    ELSE
    LET src_name == IF expr.source.alias # None
                    THEN expr.source.alias
                    ELSE table_expression_name(expr.source.expression)
        src_scope ==
            [i \in 1..Len(from.scope) |->
                ScopeColumn(from.scope[i].name,
                            {None, src_name} \cup from.scope[i].namespaces,
                            from.scope[i].expression)]
    IN  SelectJoined(expr, compile_join_clauses(expr.join, c,
                                                [from EXCEPT !.scope = src_scope]))

compile_select_table_expression(expr, c) ==
    SelectFrom(expr, c, compile_table_expression(expr.source.expression, c))

compile_table_expression(expr, c) ==
    CASE expr.type = "TableReference" -> compile_reference_table_expression(expr, c)
      [] expr.type = "Import" -> compile_import_table_expression(expr, c)
      [] expr.type = "Select" -> compile_select_table_expression(expr, c)

\* An assignment that leaves a name already bound as it is.
AssignedOnce(stmt, c, expr_table) ==
    IF expr_table.error # ""
    THEN [WithLowered(c, expr_table) EXCEPT !.error = expr_table.error]
    ELSE IF ~_strip_namespaces_ok(expr_table.scope)
    THEN [WithLowered(c, expr_table) EXCEPT !.error = "compilation error"]
    ELSE [c EXCEPT !.nodes = expr_table.nodes,
                   !.tables = trace(expr_table.tables, _strip_namespaces(expr_table.scope),
                                    stmt.start, "STATEMENT"),
                   !.bindings = c.bindings
                                    @@ (stmt.target :> _strip_namespaces(expr_table.scope))]

\* compile_statement: the context after the statement; `error` is set when
\* lowering raised.
Assigned(stmt, c, expr_table) ==
    IF expr_table.error # ""
    THEN [WithLowered(c, expr_table) EXCEPT !.error = expr_table.error]
    ELSE IF ~_strip_namespaces_ok(expr_table.scope)
    THEN [WithLowered(c, expr_table) EXCEPT !.error = "compilation error"]
    ELSE [c EXCEPT !.nodes = expr_table.nodes,
                   !.tables = trace(expr_table.tables, _strip_namespaces(expr_table.scope),
                                    stmt.start, "STATEMENT"),
                   !.bindings = (stmt.target :> _strip_namespaces(expr_table.scope))
                                    @@ c.bindings]

compile_assignment_statement(stmt, c) ==
    Assigned(stmt, c, compile_table_expression(stmt.expression, c))

\* An EXPORT statement that appends its ExportTable before its TraceTable.
ExportedFirst(stmt, c, expr_table) ==
    IF expr_table.error # ""
    THEN [WithLowered(c, expr_table) EXCEPT !.error = expr_table.error]
    ELSE IF ~_strip_namespaces_ok(expr_table.scope)
    THEN [WithLowered(c, expr_table) EXCEPT !.error = "compilation error"]
    ELSE [c EXCEPT !.nodes = expr_table.nodes,
                   !.tables = trace(export(expr_table.tables,
                                           _strip_namespaces(expr_table.scope),
                                           stmt.location),
                                    _strip_namespaces(expr_table.scope),
                                    stmt.start, "EXPORT")]

Exported(stmt, c, expr_table) ==
    IF expr_table.error # ""
    THEN [WithLowered(c, expr_table) EXCEPT !.error = expr_table.error]
    ELSE IF ~_strip_namespaces_ok(expr_table.scope)
    THEN [WithLowered(c, expr_table) EXCEPT !.error = "compilation error"]
    ELSE [c EXCEPT !.nodes = expr_table.nodes,
                   !.tables = export(trace(expr_table.tables,
                                           _strip_namespaces(expr_table.scope),
                                           stmt.start, "EXPORT"),
                                     _strip_namespaces(expr_table.scope), stmt.location)]

compile_export_statement(stmt, c) ==
    Exported(stmt, c, compile_table_expression(stmt.expression, c))

\* ------------------------------------------------------------- mappings

\* Mappings have identity too (eq=False): `id` tells two mappings with the
\* same fields apart.
IdentityMapping(id, src, tgt) ==
    [id |-> id, kind |-> "Identity", src |-> src, tgt |-> tgt,
     src_index |-> 0, tgt_index |-> 0]

ManyToManyMapping(id, src, tgt, src_index, tgt_index) ==
    [id |-> id, kind |-> "ManyToMany", src |-> src, tgt |-> tgt,
     src_index |-> src_index, tgt_index |-> tgt_index]

\* The state of mapping generation: the node table (mapping generation
\* creates index expressions), the mappings so far and the next identity.
MappingState(ns, mappings, next_id) ==
    [nodes |-> ns, mappings |-> mappings, next_id |-> next_id]

\* Where mappings whose src_index is the unmasked range over the mask.
_mappings_for_where_expression_unmasked(e, m) ==
    LET expression == m.nodes[e]
        full_src_index == Len(m.nodes) + 1
        tgt_index == Len(m.nodes) + 3
    IN  MappingState(
            m.nodes \o <<RangeExpression("INDEX", m.nodes[expression.mask].shape),
                         WhereExpression("INDEX", expression.shape, full_src_index,
                                         expression.mask),
                         RangeExpression("INDEX", expression.shape)>>,
            m.mappings \o <<ManyToManyMapping(m.next_id, expression.mask, e,
                                              full_src_index, tgt_index),
                            ManyToManyMapping(m.next_id + 1, expression.source, e,
                                              full_src_index, tgt_index)>>,
            m.next_id + 2)

_mappings_for_where_expression(e, m) ==
    LET expression == m.nodes[e]
        full_src_index == Len(m.nodes) + 1
        masked_src_index == Len(m.nodes) + 2
        tgt_index == Len(m.nodes) + 3
    IN  MappingState(
            m.nodes \o <<RangeExpression("INDEX", m.nodes[expression.mask].shape),
                         WhereExpression("INDEX", expression.shape, full_src_index,
                                         expression.mask),
                         RangeExpression("INDEX", expression.shape)>>,
            m.mappings \o <<ManyToManyMapping(m.next_id, expression.mask, e,
                                              masked_src_index, tgt_index),
                            ManyToManyMapping(m.next_id + 1, expression.source, e,
                                              masked_src_index, tgt_index)>>,
            m.next_id + 2)

\* Pick mappings whose Identity mapping starts at the picked array.
_mappings_for_pick_expression_from_source(e, m) ==
    LET expression == m.nodes[e]
        src_index == Len(m.nodes) + 1
    IN  MappingState(
            Append(m.nodes, RangeExpression("INDEX", expression.shape)),
            m.mappings \o <<IdentityMapping(m.next_id, expression.source, e),
                            ManyToManyMapping(m.next_id + 1, expression.source, e,
                                              src_index, expression.indexes)>>,
            m.next_id + 2)

_mappings_for_pick_expression(e, m) ==
    LET expression == m.nodes[e]
        src_index == Len(m.nodes) + 1
    IN  MappingState(
            Append(m.nodes, RangeExpression("INDEX", expression.shape)),
            m.mappings \o <<IdentityMapping(m.next_id, expression.indexes, e),
                            ManyToManyMapping(m.next_id + 1, expression.source, e,
                                              src_index, expression.indexes)>>,
            m.next_id + 2)

\* Identity mappings from a binary operation back to its operands.
_mappings_for_binary_expression_reversed(e, m) ==
    LET expression == m.nodes[e]
    IN  MappingState(
            m.nodes,
            m.mappings \o <<IdentityMapping(m.next_id, e, expression.source_a),
                            IdentityMapping(m.next_id + 1, e, expression.source_b)>>,
            m.next_id + 2)

_mappings_for_binary_expression(e, m) ==
    LET expression == m.nodes[e]
    IN  MappingState(
            m.nodes,
            m.mappings \o <<IdentityMapping(m.next_id, expression.source_a, e),
                            IdentityMapping(m.next_id + 1, expression.source_b, e)>>,
            m.next_id + 2)

_mappings_for_expression(e, m) ==
    CASE m.nodes[e].kind = "Where" -> _mappings_for_where_expression(e, m)
      [] m.nodes[e].kind = "Pick" -> _mappings_for_pick_expression(e, m)
      [] m.nodes[e].kind \in BinaryKinds -> _mappings_for_binary_expression(e, m)
      [] OTHER -> m

RECURSIVE MappingsForAll(_, _)
MappingsForAll(order, m) ==
    IF order = <<>> THEN m
    ELSE MappingsForAll(Tail(order), _mappings_for_expression(Head(order), m))

\* The traversal is over the lowered graph: the expressions the handlers
\* create are not part of it.
_generate_candidate_mappings(roots, m) ==
    MappingsForAll(traverse_depth_first(DepsOf(m.nodes), roots), m)

\* _merge_mapping_pair(fst, snd): the composite mapping, with identity `id`,
\* and the node table grown by the index expressions it needs.
\* A composition that picks both index arrays through the rows of the first
\* mapping.
MergeManyToManyPairLeft(fst, snd, ns, id) ==
    LET shape_a == ns[fst.tgt_index].shape
        shape_b == ns[snd.src_index].shape
        shape_full == Len(ns) + 1
        fst_index_full == Len(ns) + 2
        snd_index_full == Len(ns) + 3
        src_index_full == Len(ns) + 4
        tgt_index_full == Len(ns) + 5
        mask == Len(ns) + 6
        shape == Len(ns) + 7
        fst_index == Len(ns) + 8
        snd_index == Len(ns) + 9
        src_index == Len(ns) + 10
        tgt_index == Len(ns) + 11
    IN  [nodes |-> ns \o
            <<JoinShapeExpression(shape_a, shape_b),
              JoinLeftExpression("INDEX", shape_full, shape_a, shape_b),
              JoinRightExpression("INDEX", shape_full, shape_a, shape_b),
              PickExpression(ns[fst.tgt_index].dtype, shape_full, fst.tgt_index,
                             fst_index_full),
              PickExpression(ns[snd.src_index].dtype, shape_full, snd.src_index,
                             snd_index_full),
              BinaryExpression("EqualTo", "BOOL", shape_full, src_index_full,
                               tgt_index_full),
              WhereShapeExpression(mask),
              WhereExpression("INDEX", shape, fst_index_full, mask),
              WhereExpression("INDEX", shape, snd_index_full, mask),
              PickExpression(ns[fst.src_index].dtype, shape, fst.src_index, fst_index),
              PickExpression(ns[snd.tgt_index].dtype, shape, snd.tgt_index, fst_index)>>,
         mapping |-> ManyToManyMapping(id, fst.src, snd.tgt, src_index, tgt_index)]

MergeManyToManyPair(fst, snd, ns, id) ==
    LET shape_a == ns[fst.tgt_index].shape
        shape_b == ns[snd.src_index].shape
        shape_full == Len(ns) + 1
        fst_index_full == Len(ns) + 2
        snd_index_full == Len(ns) + 3
        src_index_full == Len(ns) + 4
        tgt_index_full == Len(ns) + 5
        mask == Len(ns) + 6
        shape == Len(ns) + 7
        fst_index == Len(ns) + 8
        snd_index == Len(ns) + 9
        src_index == Len(ns) + 10
        tgt_index == Len(ns) + 11
    IN  [nodes |-> ns \o
            <<JoinShapeExpression(shape_a, shape_b),
              JoinLeftExpression("INDEX", shape_full, shape_a, shape_b),
              JoinRightExpression("INDEX", shape_full, shape_a, shape_b),
              PickExpression(ns[fst.tgt_index].dtype, shape_full, fst.tgt_index,
                             fst_index_full),
              PickExpression(ns[snd.src_index].dtype, shape_full, snd.src_index,
                             snd_index_full),
              BinaryExpression("EqualTo", "BOOL", shape_full, src_index_full,
                               tgt_index_full),
              WhereShapeExpression(mask),
              WhereExpression("INDEX", shape, fst_index_full, mask),
              WhereExpression("INDEX", shape, snd_index_full, mask),
              PickExpression(ns[fst.src_index].dtype, shape, fst.src_index, fst_index),
              PickExpression(ns[snd.tgt_index].dtype, shape, snd.tgt_index, snd_index)>>,
         mapping |-> ManyToManyMapping(id, fst.src, snd.tgt, src_index, tgt_index)]

_merge_mapping_pair(fst, snd, ns, id) ==
    CASE fst.kind = "Identity" /\ snd.kind = "Identity" ->
             [nodes |-> ns, mapping |-> IdentityMapping(id, fst.src, snd.tgt)]
      [] fst.kind = "Identity" /\ snd.kind = "ManyToMany" ->
             [nodes |-> ns,
              mapping |-> ManyToManyMapping(id, fst.src, snd.tgt, snd.src_index,
                                            snd.tgt_index)]
      [] fst.kind = "ManyToMany" /\ snd.kind = "Identity" ->
             [nodes |-> ns,
              mapping |-> ManyToManyMapping(id, fst.src, snd.tgt, fst.src_index,
                                            fst.tgt_index)]
      [] fst.kind = "ManyToMany" /\ snd.kind = "ManyToMany" ->
             MergeManyToManyPair(fst, snd, ns, id)

\* A set of mappings as a list, by identity.
RECURSIVE MappingSeq(_)
MappingSeq(S) ==
    IF S = {} THEN <<>>
    ELSE LET first == CHOOSE x \in S : \A y \in S : x.id <= y.id
         IN  <<first>> \o MappingSeq(S \ {first})

\* dict.setdefault(key, set()).add(mapping)
SetDefaultAdd(dict, key, mapping) ==
    IF key \in DOMAIN dict
    THEN [dict EXCEPT ![key] = @ \cup {mapping}]
    ELSE (key :> {mapping}) @@ dict

RECURSIVE GroupBy(_, _, _)
GroupBy(mappings, field, dict) ==
    IF mappings = <<>> THEN dict
    ELSE GroupBy(Tail(mappings), field,
                 SetDefaultAdd(dict, IF field = "src" THEN Head(mappings).src
                                     ELSE Head(mappings).tgt,
                               Head(mappings)))

\* dict.pop(key, set())
Pop(dict, key) == [k \in DOMAIN dict \ {key} |-> dict[k]]

PopValue(dict, key) == IF key \in DOMAIN dict THEN dict[key] ELSE {}

\* The state of _merge_mappings: the node table, the list of candidates, the
\* two dictionaries, the
\* expressions still to eliminate, and whether a dictionary or set lookup
\* has raised KeyError.
MergeStart(ns, mappings, roots, next_id) ==
    LET mappings_by_src == GroupBy(mappings, "src", <<>>)
        mappings_by_tgt == GroupBy(mappings, "tgt", <<>>)
    IN  [nodes |-> ns, mappings |-> mappings, mappings_by_src |-> mappings_by_src,
         mappings_by_tgt |-> mappings_by_tgt,
         nonroots |-> (DOMAIN mappings_by_src \cup DOMAIN mappings_by_tgt) \ Range(roots),
         next_id |-> next_id, error |-> ""]

\* mappings_by_src[mapping.src].add(mapping); mappings_by_tgt[mapping.tgt].add(mapping)
AddMerged(g, merged) ==
    IF merged.mapping.src \notin DOMAIN g.mappings_by_src
       \/ merged.mapping.tgt \notin DOMAIN g.mappings_by_tgt
    THEN [g EXCEPT !.error = "KeyError"]
    ELSE [g EXCEPT !.nodes = merged.nodes,
                   !.mappings_by_src[merged.mapping.src] = @ \cup {merged.mapping},
                   !.mappings_by_tgt[merged.mapping.tgt] = @ \cup {merged.mapping},
                   !.next_id = @ + 1]

\* zip(src_mappings, tgt_mappings) in place of the product.
RECURSIVE MergeZip(_, _, _, _)
MergeZip(g, src_mappings, tgt_mappings, k) ==
    IF g.error # "" \/ k > Len(src_mappings) \/ k > Len(tgt_mappings) THEN g
    ELSE MergeZip(AddMerged(g, _merge_mapping_pair(src_mappings[k], tgt_mappings[k],
                                                   g.nodes, g.next_id)),
                  src_mappings, tgt_mappings, k + 1)

\* itertools.product(src_mappings, tgt_mappings), merged pair by pair.
RECURSIVE MergeProduct(_, _, _, _)
MergeProduct(g, src_mappings, tgt_mappings, k) ==
    IF g.error # "" \/ k > Len(src_mappings) * Len(tgt_mappings) THEN g
    ELSE LET src_mapping == src_mappings[((k - 1) \div Len(tgt_mappings)) + 1]
             tgt_mapping == tgt_mappings[((k - 1) % Len(tgt_mappings)) + 1]
         IN  MergeProduct(AddMerged(g, _merge_mapping_pair(src_mapping, tgt_mapping,
                                                           g.nodes, g.next_id)),
                          src_mappings, tgt_mappings, k + 1)

\* dict[key].remove(mapping), for each mapping of a list.
RECURSIVE RemoveAll(_, _, _)
RemoveAll(g, mappings, field) ==
    IF g.error # "" \/ mappings = <<>> THEN g
    ELSE LET mapping == Head(mappings)
             key == IF field = "src" THEN mapping.src ELSE mapping.tgt
             dict == IF field = "src" THEN g.mappings_by_src ELSE g.mappings_by_tgt
         IN  IF key \notin DOMAIN dict \/ mapping \notin dict[key]
             THEN [g EXCEPT !.error = "KeyError"]
             ELSE RemoveAll(IF field = "src"
                            THEN [g EXCEPT !.mappings_by_src[key] = @ \ {mapping}]
                            ELSE [g EXCEPT !.mappings_by_tgt[key] = @ \ {mapping}],
                            Tail(mappings), field)

\* One pass that merges through the non-root but leaves the mappings into it
\* in mappings_by_src.
EliminateKeepingSources(g, nonroot) ==
    LET src_mappings == MappingSeq(PopValue(g.mappings_by_tgt, nonroot))
        tgt_mappings == MappingSeq(PopValue(g.mappings_by_src, nonroot))
        popped == [g EXCEPT !.mappings_by_tgt = Pop(@, nonroot),
                            !.mappings_by_src = Pop(@, nonroot),
                            !.nonroots = @ \ {nonroot}]
        merged == MergeProduct(popped, src_mappings, tgt_mappings, 1)
    IN  RemoveAll(merged, tgt_mappings, "tgt")

\* One pass of `for nonroot in nonroots`.
Eliminate(g, nonroot) ==
    LET src_mappings == MappingSeq(PopValue(g.mappings_by_tgt, nonroot))
        tgt_mappings == MappingSeq(PopValue(g.mappings_by_src, nonroot))
        popped == [g EXCEPT !.mappings_by_tgt = Pop(@, nonroot),
                            !.mappings_by_src = Pop(@, nonroot),
                            !.nonroots = @ \ {nonroot}]
        merged == MergeProduct(popped, src_mappings, tgt_mappings, 1)
    IN  RemoveAll(RemoveAll(merged, src_mappings, "src"), tgt_mappings, "tgt")

\* `for group in mappings_by_src.values(): yield from group`
MergeResult(g) ==
    SeqConcat([i \in 1..Cardinality(DOMAIN g.mappings_by_src) |->
                  MappingSeq(g.mappings_by_src[SetToSeqAsc(DOMAIN g.mappings_by_src)[i]])])

\* The loop run to its end, the non-roots taken in the order `ord`.
RECURSIVE MergeRun(_, _)
MergeRun(g, ord) ==
    IF g.error # "" \/ g.nonroots = {} THEN g
    ELSE MergeRun(Eliminate(g, Head(SetToSeq(g.nonroots, ord))), ord)

\* generate_mappings(roots)
generate_mappings(ns, roots, ord) ==
    LET candidates == _generate_candidate_mappings(roots, MappingState(ns, <<>>, 1))
    IN  MergeRun(MergeStart(candidates.nodes, candidates.mappings, roots,
                            candidates.next_id), ord)

\* ------------------------------------------------------------ scheduler

EvaluateShapeCommand(expression) ==
    [type |-> "EvaluateShape", expression |-> expression, uuid |-> 0, name |-> "",
     columns |-> <<>>]

EvaluateArrayCommand(expression) ==
    [type |-> "EvaluateArray", expression |-> expression, uuid |-> 0, name |-> "",
     columns |-> <<>>]

TraceArrayCommand(expression, uuid) ==
    [type |-> "TraceArray", expression |-> expression, uuid |-> uuid, name |-> "",
     columns |-> <<>>]

\* `columns` is a dict: one entry per name, the last expression bound to it.
ExportTableCommand(name, columns) ==
    [type |-> "ExportTable", expression |-> 0, uuid |-> 0, name |-> name,
     columns |-> BindAllByName(<<>>, columns)]

\* Commands for the dependencies of the roots, the roots themselves left out.
compile_ir_to_cmd_dependencies(ns, roots) ==
    LET order == SelectSeq(traverse_depth_first(DepsOf(ns), roots),
                           LAMBDA e : e \notin Range(roots))
    IN  [i \in 1..Len(order) |->
            IF IsShapeExpression(ns[order[i]])
            THEN EvaluateShapeCommand(order[i])
            ELSE EvaluateArrayCommand(order[i])]

compile_ir_to_cmd(ns, roots) ==
    LET order == traverse_depth_first(DepsOf(ns), roots)
    IN  [i \in 1..Len(order) |->
            IF IsShapeExpression(ns[order[i]])
            THEN EvaluateShapeCommand(order[i])
            ELSE EvaluateArrayCommand(order[i])]

\* ------------------------------------------------------------- run()

extract_trace_tables(tables) == SelectSeq(tables, LAMBDA table : table.type = "TraceTable")

extract_export_tables(tables) == SelectSeq(tables, LAMBDA table : table.type = "ExportTable")

filter_tables(tables) == tables

TableRootSet(tables) ==
    UNION {{tables[i].columns[j].expression : j \in 1..Len(tables[i].columns)} :
              i \in 1..Len(tables)}

\* list({column.expression for table in tables for column in table.columns})
get_table_roots(tables, ord) == SetToSeq(TableRootSet(tables), ord)

_get_mapping_roots(mapping) ==
    IF mapping.kind = "ManyToMany" THEN {mapping.src_index, mapping.tgt_index} ELSE {}

MappingRootSet(mappings) == UNION {_get_mapping_roots(mappings[i]) : i \in 1..Len(mappings)}

get_mapping_roots(mappings, ord) == SetToSeq(MappingRootSet(mappings), ord)

\* The ExportTable commands run() appends, one per export table, in order.
ExportCommands(tables) ==
    [i \in 1..Len(extract_export_tables(tables)) |->
        ExportTableCommand(extract_export_tables(tables)[i].export_as,
                           extract_export_tables(tables)[i].columns)]

\* The expressions run() names and traces, in order: an expression that is
\* both a table root and a mapping root occurs twice.
TracedExpressions(tables, mappings, ord) ==
    get_table_roots(extract_trace_tables(tables), ord) \o get_mapping_roots(mappings, ord)

\* names[expression] = uuid4(): the k-th identifier drawn is k; an expression
\* named twice keeps the later identifier.
Names(traced) ==
    [e \in Range(traced) |-> Max({k \in 1..Len(traced) : traced[k] = e})]

\* Trace commands that draw an identifier of their own for each expression.
TraceCommandsRenamed(traced) ==
    [k \in 1..Len(traced) |-> TraceArrayCommand(traced[k], Len(traced) + k)]

TraceCommands(traced) == [k \in 1..Len(traced) |-> TraceArrayCommand(traced[k], k)]

_manifest_snapshot_from_trace_table(table, names) ==
    [start |-> table.ast_node,
     columns |-> [j \in 1..Len(table.columns) |->
                     [name |-> table.columns[j].name,
                      array |-> names[table.columns[j].expression]]]]

_manifest_mapping_from_mapping(mapping, names) ==
    IF mapping.kind = "Identity"
    THEN [kind |-> "Identity", src_array |-> names[mapping.src],
          tgt_array |-> names[mapping.tgt], src_index_array |-> 0, tgt_index_array |-> 0]
    ELSE [kind |-> "ManyToMany", src_array |-> names[mapping.src],
          tgt_array |-> names[mapping.tgt],
          src_index_array |-> names[mapping.src_index],
          tgt_index_array |-> names[mapping.tgt_index]]

\* names[...] raises KeyError for an expression that was given no name.
create_manifest_ok(mappings, snapshots, names) ==
    /\ TableRootSet(snapshots) \subseteq DOMAIN names
    /\ \A i \in 1..Len(mappings) :
           {mappings[i].src, mappings[i].tgt} \cup _get_mapping_roots(mappings[i])
               \subseteq DOMAIN names

create_manifest(mappings, snapshots, names) ==
    [snapshots |-> [i \in 1..Len(snapshots) |->
                       _manifest_snapshot_from_trace_table(snapshots[i], names)],
     mappings |-> [i \in 1..Len(mappings) |->
                      _manifest_mapping_from_mapping(mappings[i], names)]]

\* ------------------------------------------------------------- scripts

\* The tables the importer serves: `input_a` and `input_b`, each with an
\* int64 `key` and an int64 `value` column.
Schema == <<[name |-> "key", type |-> "int64"], [name |-> "value", type |-> "int64"]>>

Schemas == ("input_a" :> Schema) @@ ("input_b" :> Schema)

\* The rows of an imported table: the keys are drawn, the value of row i of
\* `input_a` is 10 + i and that of row j of `input_b` is 20 + j, so that a
\* value tells which row it came from.
InputTable(keys, base) ==
    <<NamedArray("key", Array("int64", keys)),
      NamedArray("value", Array("int64", [i \in 1..Len(keys) |-> base + i]))>>

\* The key cells are 0 or 1: the predicates of the scripts compare keys, so
\* that two values give rows that match and rows that do not.
KeyValues == {0, 1}

Keys == SeqsUpTo(KeyValues, MaxRows)

Inputs(keys_a, keys_b) ==
    ("input_a" :> InputTable(keys_a, 10)) @@ ("input_b" :> InputTable(keys_b, 20))

Col(name) == ColumnReferenceExpression(None, name)

QCol(table, name) == ColumnReferenceExpression(table, name)

IntLit(value) == LiteralExpression("Integer", value)

As(expression, alias) == AliasedColumnBinding(expression, alias)

Bin(type, left, right) == BinaryOperatorExpression(type, left, right)

\* WITH a AS IMPORT 'input_a';  WITH b AS IMPORT 'input_b';
ImportA == AssignmentStatement(10, "a", ImportTableExpression(11, "input_a"))

ImportB == AssignmentStatement(20, "b", ImportTableExpression(21, "input_b"))

From(name, start) == TableBinding(TableReferenceExpression(start, name), None)

\* JOIN b ON predicate
JoinB(predicate) == <<JoinClause(33, From("b", 34), "On", predicate)>>

\* WITH output AS SELECT columns FROM a [JOIN ...] [WHERE ...] [GROUP BY ...];
Select(columns, join, where, group_by) ==
    AssignmentStatement(30, "output",
                        SelectExpression(31, columns, From("a", 32), join, where, group_by))

\* EXPORT name TO 'location';
Export(start, name, location) ==
    ExportStatement(start, TableReferenceExpression(start + 1, name), location)

\* The select statements of the modelled scripts.
KeyEqKey == Bin("EqualTo", QCol("a", "key"), QCol("b", "key"))

KeyPlusOneEqKey ==
    Bin("EqualTo", Bin("Add", QCol("a", "key"), IntLit(1)), QCol("b", "key"))

JoinColumns ==
    <<ImplicitColumnBinding(Col("key")), As(QCol("a", "value"), "x"),
      As(QCol("b", "value"), "y")>>

Selects ==
    <<\* SELECT key AS x, value AS y FROM a
      Select(<<As(Col("key"), "x"), As(Col("value"), "y")>>, <<>>, <<>>, None),
      \* SELECT key, add(key, value) AS c FROM a
      Select(<<ImplicitColumnBinding(Col("key")),
               As(FunctionCallExpression("add", <<Col("key"), Col("value")>>), "c")>>,
             <<>>, <<>>, None),
      \* SELECT key + value * key AS r, value - key - 1 AS q FROM a
      Select(<<As(Bin("Add", Col("key"), Bin("Multiply", Col("value"), Col("key"))), "r"),
               As(Bin("Subtract", Bin("Subtract", Col("value"), Col("key")), IntLit(1)),
                  "q")>>,
             <<>>, <<>>, None),
      \* SELECT value / (key + key) AS q, 1 AS c FROM a
      Select(<<As(Bin("Divide", Col("value"), Bin("Add", Col("key"), Col("key"))), "q"),
               As(IntLit(1), "c")>>,
             <<>>, <<>>, None),
      \* SELECT key AS x, value AS x FROM a
      Select(<<As(Col("key"), "x"), As(Col("value"), "x")>>, <<>>, <<>>, None),
      \* SELECT * FROM a WHERE key = 1
      Select(<<WildcardColumnBinding>>, <<>>,
             <<Bin("EqualTo", Col("key"), IntLit(1))>>, None),
      \* SELECT value AS y, key FROM a WHERE a.key + 1 = 1
      Select(<<As(Col("value"), "y"), ImplicitColumnBinding(Col("key"))>>, <<>>,
             <<Bin("EqualTo", Bin("Add", QCol("a", "key"), IntLit(1)), IntLit(1))>>, None),
      \* SELECT key, a.value AS x, b.value AS y FROM a JOIN b ON a.key = b.key
      Select(JoinColumns, JoinB(KeyEqKey), <<>>, None),
      \* SELECT key, a.value AS x, b.value AS y FROM a JOIN b ON a.key + 1 = b.key
      Select(JoinColumns, JoinB(KeyPlusOneEqKey), <<>>, None),
      \* SELECT key FROM a GROUP BY key
      Select(<<ImplicitColumnBinding(Col("key"))>>, <<>>, <<>>, "key"),
      \* SELECT nope AS x FROM a
      Select(<<As(Col("nope"), "x")>>, <<>>, <<>>, None),
      \* SELECT b.key AS x FROM a
      Select(<<As(QCol("b", "key"), "x")>>, <<>>, <<>>, None),
      \* SELECT a.key FROM a
      Select(<<ImplicitColumnBinding(QCol("a", "key"))>>, <<>>, <<>>, None),
      \* SELECT value AS y FROM a WHERE key
      Select(<<As(Col("value"), "y")>>, <<>>, <<Col("key")>>, None)>>

\* WITH a ...; WITH b ...; WITH output AS SELECT ...; EXPORT output TO 'output';
SelectScripts ==
    {<<ImportA, ImportB, Selects[i], Export(40, "output", "output")>> :
        i \in 1..Len(Selects)}

\* Scripts with two EXPORT statements, to distinct sinks and to one sink, and
\* scripts whose last statement does not lower.
ExportScripts ==
    {<<ImportA, ImportB, Export(40, "a", "first"), Export(50, "b", "second")>>,
     <<ImportA, ImportB, Export(40, "a", "output"), Export(50, "b", "output")>>,
     <<ImportA, Export(40, "a", "output"), Export(50, "missing", "second")>>,
     <<ImportA, Export(40, "a", "output"), Selects[11]>>,
     \* WITH a AS IMPORT 'input_a'; WITH a AS IMPORT 'input_b'; EXPORT a ...
     <<ImportA, AssignmentStatement(20, "a", ImportTableExpression(21, "input_b")),
       Export(40, "a", "output"), Export(50, "missing", "second")>>}

Scripts == SelectScripts \cup ExportScripts

\* ---------------------------------------------------------------- state

VARIABLES
    source,     \* run(source, ...): the parsed script, a list of statements
    tracing,    \* whether run() was given a tracer
    order,      \* the iteration order of the sets of expressions of this run
    pc,         \* the stage run() is in
    statement,  \* compile_ast_to_ir: the index of the next statement
    nodes,      \* the IR expressions created so far
    tables,     \* ast_to_ir.Context.tables
    bindings,   \* ast_to_ir.Context.bindings
    mappings,   \* run(): mappings
    commands,   \* run(): commands
    names,      \* run(): names
    importer,   \* the tables the importer serves
    shapes,     \* eval.Context.shapes
    arrays,     \* eval.Context.arrays
    ip,         \* the index of the command `for command in commands` is at
    exported,   \* InMemoryExporter.__tables
    manifest,   \* InMemoryTracer.manifest, a list of at most one manifest
    traced,     \* InMemoryTracer.arrays
    error,      \* the exception run() raised, if any
    dag,        \* traverse_depth_first alone: the dependencies of each node
    roots,      \* traverse_depth_first or _merge_mappings alone: the roots given
    traversal,  \* traverse_depth_first alone: the state of the generator
    merge,      \* _merge_mappings alone: the state of the loop
    lexer,      \* tokenize and parse alone: the state of the tokenizer and the parse
    rewrite     \* ir.map alone: the DAG given and the outcome of the call

lowering == <<statement, nodes, tables, bindings>>

scheduling == <<mappings, commands, names>>

evaluation == <<importer, shapes, arrays, ip>>

sinks == <<exported, manifest, traced>>

run_vars == <<source, tracing, order, pc, error, lowering, scheduling, evaluation, sinks>>

traverse_vars == <<dag, roots, traversal>>

alone_vars == <<lexer, rewrite>>

vars == <<run_vars, traverse_vars, merge, alone_vars>>

\* The state of run() on entry.
RunStart ==
    /\ pc = "lower"
    /\ statement = 1
    /\ nodes = <<>>
    /\ tables = <<>>
    /\ bindings = <<>>
    /\ mappings = <<>>
    /\ commands = <<>>
    /\ names = <<>>
    /\ importer = <<>>
    /\ shapes = <<>>
    /\ arrays = <<>>
    /\ ip = 0
    /\ exported = <<>>
    /\ manifest = <<>>
    /\ traced = <<>>
    /\ error = ""

TraverseIdle ==
    /\ dag = <<>>
    /\ roots = <<>>
    /\ traversal = [pc |-> "idle", stack |-> <<>>, visited |-> {}, out |-> <<>>]

MergeIdle ==
    merge = [nodes |-> <<>>, mappings |-> <<>>, mappings_by_src |-> <<>>,
             mappings_by_tgt |-> <<>>,
             nonroots |-> {}, next_id |-> 0, error |-> "idle"]

LexerIdle == lexer = [string |-> <<>>, cursor |-> 0, tokens |-> <<>>, pc |-> "idle"]

RewriteIdle == rewrite = [nodes |-> <<>>, roots |-> <<>>, pc |-> "idle"]

AloneIdle == LexerIdle /\ RewriteIdle

Init ==
    /\ source \in Scripts
    /\ tracing \in BOOLEAN
    /\ order \in {"asc", "desc"}
    /\ RunStart
    /\ TraverseIdle
    /\ MergeIdle
    /\ AloneIdle

\* ------------------------------------------------------ run(): lowering

LoweringContext ==
    [nodes |-> nodes, tables |-> tables, bindings |-> bindings, schemas |-> Schemas,
     error |-> ""]

\* One pass of `for statement in source.statements`; an exception ends run().
CompileStatement(after) ==
    /\ nodes' = after.nodes
    /\ tables' = after.tables
    /\ bindings' = after.bindings
    /\ IF after.error # ""
       THEN pc' = "error" /\ error' = after.error /\ statement' = statement
       ELSE pc' = pc /\ error' = error /\ statement' = statement + 1
    /\ UNCHANGED <<source, tracing, order, scheduling, evaluation, sinks, traverse_vars, merge, alone_vars>>

CompileAssignmentStatement ==
    /\ pc = "lower"
    /\ statement <= Len(source)
    /\ source[statement].type = "Assignment"
    /\ CompileStatement(compile_assignment_statement(source[statement], LoweringContext))

\* An EXPORT statement that hands a table to the exporter as it is lowered.
CompileExportStatementEager ==
    /\ pc = "lower"
    /\ statement <= Len(source)
    /\ source[statement].type = "Export"
    /\ LET after == compile_export_statement(source[statement], LoweringContext)
       IN  /\ nodes' = after.nodes
           /\ tables' = after.tables
           /\ bindings' = after.bindings
           /\ IF after.error # ""
              THEN /\ pc' = "error" /\ error' = after.error /\ statement' = statement
                   /\ exported' = exported
              ELSE /\ pc' = pc /\ error' = error /\ statement' = statement + 1
                   /\ exported' = (source[statement].location :> <<>>) @@ exported
    /\ UNCHANGED <<source, tracing, order, scheduling, evaluation, manifest, traced,
                   traverse_vars, merge, alone_vars>>

CompileExportStatement ==
    /\ pc = "lower"
    /\ statement <= Len(source)
    /\ source[statement].type = "Export"
    /\ CompileStatement(compile_export_statement(source[statement], LoweringContext))

\* ---------------------------------------------- run(): mappings, commands

\* compile_ast_to_ir has returned: generate_mappings over the roots of the
\* trace tables.
GenerateMappings ==
    /\ pc = "lower"
    /\ statement > Len(source)
    /\ LET generated ==
               generate_mappings(
                   nodes,
                   get_table_roots(extract_trace_tables(filter_tables(tables)), order),
                   order)
       IN  IF generated.error # ""
           THEN /\ pc' = "error"
                /\ error' = generated.error
                /\ UNCHANGED <<nodes, mappings>>
           ELSE /\ pc' = "schedule"
                /\ error' = error
                /\ nodes' = generated.nodes
                /\ mappings' = MergeResult(generated)
    /\ UNCHANGED <<source, tracing, order, statement, tables, bindings, commands, names,
                   evaluation, sinks, traverse_vars, merge, alone_vars>>

\* The reachable expressions compiled to commands, then one ExportTable
\* command per export table.
CompileCommands ==
    /\ pc = "schedule"
    /\ commands' =
           compile_ir_to_cmd(
               nodes,
               SetToSeq(TableRootSet(filter_tables(tables)) \cup MappingRootSet(mappings),
                        order))
           \o ExportCommands(filter_tables(tables))
    /\ pc' = "tracing"
    /\ UNCHANGED <<source, tracing, order, error, lowering, mappings, names, evaluation,
                   sinks, traverse_vars, merge, alone_vars>>

\* A set-up of tracing that leaves the manifest to be written later.
SetupTracingWithoutManifest ==
    /\ pc = "tracing"
    /\ LET traced_expressions == TracedExpressions(filter_tables(tables), mappings, order)
       IN  IF ~tracing
           THEN pc' = "context" /\ UNCHANGED <<error, commands, names, manifest>>
           ELSE /\ names' = Names(traced_expressions)
                /\ commands' = commands \o TraceCommands(traced_expressions)
                /\ pc' = "context"
                /\ UNCHANGED <<error, manifest>>
    /\ UNCHANGED <<source, tracing, order, lowering, mappings, evaluation, exported, traced,
                   traverse_vars, merge, alone_vars>>

\* `if tracer is not None:`: name and trace the roots, write the manifest.
SetupTracing ==
    /\ pc = "tracing"
    /\ LET trace_tables == extract_trace_tables(filter_tables(tables))
           traced_expressions == TracedExpressions(filter_tables(tables), mappings, order)
           new_names == Names(traced_expressions)
       IN  IF ~tracing
           THEN pc' = "context" /\ UNCHANGED <<error, commands, names, manifest>>
           ELSE /\ names' = new_names
                /\ commands' = commands \o TraceCommands(traced_expressions)
                /\ IF \E k \in 1..Len(traced_expressions) :
                          ~IsArrayExpression(nodes[traced_expressions[k]])
                   THEN pc' = "error" /\ error' = "AssertionError" /\ manifest' = manifest
                   ELSE IF ~create_manifest_ok(mappings, trace_tables, new_names)
                   THEN pc' = "error" /\ error' = "KeyError" /\ manifest' = manifest
                   ELSE IF manifest # <<>>
                   THEN pc' = "error" /\ error' = "AssertionError" /\ manifest' = manifest
                   ELSE /\ pc' = "context"
                        /\ error' = error
                        /\ manifest' = <<create_manifest(mappings, trace_tables, new_names)>>
    /\ UNCHANGED <<source, tracing, order, lowering, mappings, evaluation, exported, traced,
                   traverse_vars, merge, alone_vars>>

\* ---------------------------------------------------- run(): evaluation

\* context = Context(shapes={}, arrays={}, importer=importer, ...).  The rows
\* the importer serves are first read by the evaluation.
BeginEvaluation ==
    /\ pc = "context"
    /\ \E keys_a \in Keys, keys_b \in Keys : importer' = Inputs(keys_a, keys_b)
    /\ shapes' = <<>>
    /\ arrays' = <<>>
    /\ ip' = 1
    /\ pc' = IF commands = <<>> THEN "done" ELSE "eval"
    /\ UNCHANGED <<source, tracing, order, error, lowering, scheduling, sinks,
                   traverse_vars, merge, alone_vars>>

EvalContext == [shapes |-> shapes, arrays |-> arrays, importer |-> importer]

\* The loop moves to the next command, or run() returns.
Advance ==
    /\ ip' = ip + 1
    /\ pc' = IF ip = Len(commands) THEN "done" ELSE "eval"
    /\ error' = error

\* The command raised: run() ends with the exception.
Fail(exception) ==
    /\ ip' = ip
    /\ pc' = "error"
    /\ error' = exception

AtCommand(type) == pc = "eval" /\ commands[ip].type = type

_eval_evaluate_shape_command ==
    /\ AtCommand("EvaluateShape")
    /\ LET expression == commands[ip].expression
       IN  IF eval_expression_ok(nodes[expression], EvalContext)
           THEN /\ shapes' = (expression :> eval_expression(nodes[expression], EvalContext))
                                 @@ shapes
                /\ Advance
           ELSE shapes' = shapes /\ Fail("evaluation error")
    /\ UNCHANGED <<source, tracing, order, lowering, scheduling, importer, arrays, sinks,
                   traverse_vars, merge, alone_vars>>

_eval_evaluate_array_command ==
    /\ AtCommand("EvaluateArray")
    /\ LET expression == commands[ip].expression
       IN  IF eval_expression_ok(nodes[expression], EvalContext)
           THEN /\ arrays' = (expression :> eval_expression(nodes[expression], EvalContext))
                                 @@ arrays
                /\ Advance
           ELSE arrays' = arrays /\ Fail("evaluation error")
    /\ UNCHANGED <<source, tracing, order, lowering, scheduling, importer, shapes, sinks,
                   traverse_vars, merge, alone_vars>>

\* tracer.write_array(command.uuid, context.arrays[command.expression])
_eval_trace_array_command ==
    /\ AtCommand("TraceArray")
    /\ LET expression == commands[ip].expression
       IN  IF ~tracing \/ manifest = <<>>
           THEN traced' = traced /\ Fail("AssertionError")
           ELSE IF expression \notin DOMAIN arrays
           THEN traced' = traced /\ Fail("KeyError")
           ELSE /\ traced' = (commands[ip].uuid :> arrays[expression]) @@ traced
                /\ Advance
    /\ UNCHANGED <<source, tracing, order, lowering, scheduling, importer, shapes, arrays,
                   exported, manifest, traverse_vars, merge, alone_vars>>

\* pa.table({name: context.arrays[expression] ...}): the columns of a table
\* have one length.
pa_table_ok(columns, cache) ==
    \A i, j \in 1..Len(columns) :
        Len(cache[columns[i].expression].data) = Len(cache[columns[j].expression].data)

pa_table(columns, cache) ==
    [i \in 1..Len(columns) |-> NamedArray(columns[i].name, cache[columns[i].expression])]

\* exporter.export_table(command.name, table), the exporter an InMemoryExporter.
_eval_export_table_command ==
    /\ AtCommand("ExportTable")
    /\ LET command == commands[ip]
       IN  IF \E i \in 1..Len(command.columns) :
                  command.columns[i].expression \notin DOMAIN arrays
           THEN exported' = exported /\ Fail("KeyError")
           ELSE IF ~pa_table_ok(command.columns, arrays)
           THEN exported' = exported /\ Fail("ArrowInvalid")
           ELSE IF command.name \in DOMAIN exported
           THEN exported' = exported /\ Fail("AssertionError")
           ELSE /\ exported' = (command.name :> pa_table(command.columns, arrays))
                                   @@ exported
                /\ Advance
    /\ UNCHANGED <<source, tracing, order, lowering, scheduling, importer, shapes, arrays,
                   manifest, traced, traverse_vars, merge, alone_vars>>

Next ==
    \/ CompileAssignmentStatement
    \/ CompileExportStatement
    \/ GenerateMappings
    \/ CompileCommands
    \/ SetupTracing
    \/ BeginEvaluation
    \/ _eval_evaluate_shape_command
    \/ _eval_evaluate_array_command
    \/ _eval_trace_array_command
    \/ _eval_export_table_command

Spec == Init /\ [][Next]_vars

\* ------------------------------------------- traverse_depth_first alone

\* run() is not in progress.
RunIdle ==
    /\ source = <<>>
    /\ tracing = FALSE
    /\ order = "asc"
    /\ RunStart

\* The expression DAGs on NumNodes nodes: the dependencies of a node are a
\* list, with repetitions, of at most MaxDeps lower-numbered nodes.
Dags == [n \in 1..NumNodes |-> SeqsUpTo(1..(n - 1), MaxDeps)]

RECURSIVE DagsFrom(_)
DagsFrom(n) ==
    IF n = 0 THEN {<<>>}
    ELSE {Append(D, deps) : D \in DagsFrom(n - 1), deps \in Dags[n]}

TraverseInit ==
    /\ dag \in DagsFrom(NumNodes)
    /\ roots \in SeqsUpTo(1..NumNodes, MaxRoots)
    /\ traversal = TraverseStart(roots)
    /\ RunIdle
    /\ MergeIdle
    /\ AloneIdle

TraverseExpand ==
    /\ CanExpand(traversal)
    /\ traversal' = Expand(dag, traversal)
    /\ UNCHANGED <<run_vars, dag, roots, merge, alone_vars>>

TraverseExpandDone ==
    /\ CanExpandDone(traversal)
    /\ traversal' = ExpandDone(traversal)
    /\ UNCHANGED <<run_vars, dag, roots, merge, alone_vars>>

TraverseConsumeBreak ==
    /\ CanConsumeBreak(traversal)
    /\ traversal' = ConsumeBreak(traversal)
    /\ UNCHANGED <<run_vars, dag, roots, merge, alone_vars>>

TraverseConsumePop ==
    /\ CanConsumePop(traversal)
    /\ traversal' = ConsumePop(traversal)
    /\ UNCHANGED <<run_vars, dag, roots, merge, alone_vars>>

TraverseNext ==
    \/ TraverseExpand
    \/ TraverseExpandDone
    \/ TraverseConsumeBreak
    \/ TraverseConsumePop

\* The consumer of the generator iterates it to exhaustion.
TraverseSpec == TraverseInit /\ [][TraverseNext]_vars /\ WF_vars(TraverseNext)

\* The nodes reachable from a set of nodes through the dependencies.
RECURSIVE Closure(_, _)
Closure(D, S) ==
    IF UNION {Range(D[n]) : n \in S} \subseteq S THEN S
    ELSE Closure(D, S \cup UNION {Range(D[n]) : n \in S})

Reachable == Closure(dag, Range(roots))

\* No node is yielded twice, only reachable nodes are yielded, and a node is
\* yielded after each of its dependencies.
YieldsInOrder ==
    /\ \A i, j \in 1..Len(traversal.out) :
           i # j => traversal.out[i] # traversal.out[j]
    /\ Range(traversal.out) \subseteq Reachable
    /\ \A k \in 1..Len(traversal.out) :
           Range(dag[traversal.out[k]]) \subseteq {traversal.out[j] : j \in 1..(k - 1)}

YieldsAllReachable == traversal.pc = "done" => Range(traversal.out) = Reachable

\* C4: for every DAG and every list of roots (with duplicate roots, and with
\* roots that other roots depend on) traverse_depth_first terminates, yields
\* each reachable node exactly once and no other node, and yields a node only
\* after all of its dependencies.
C4_TraverseDepthFirst ==
    /\ [](YieldsInOrder /\ YieldsAllReachable)
    /\ <>(traversal.pc = "done")

\* A finished traversal of a whole DAG from two roots one of which the other
\* depends on.
C4_Witness ==
    /\ traversal.pc = "done"
    /\ Len(traversal.out) = NumNodes
    /\ Len(roots) = 2
    /\ roots[1] \in Range(dag[roots[2]])

\* ------------------------------------------------ _merge_mappings alone

\* NumArrays imported columns of one table, and one index array over it.
\* Candidate mappings run from a lower-numbered column to a higher one.
ArrayNodes == 2..(NumArrays + 1)

IndexNode == NumArrays + 2

MergeNodes ==
    <<ImportShapeExpression("input_a")>>
        \o [i \in 1..NumArrays |-> ImportExpression("INT64", 1, "input_a", "key")]
        \o <<JoinLeftExpression("INDEX", 1, 1, 1)>>

ArrayPairs == SetToSeqAsc({p \in 1..((NumArrays + 2) * (NumArrays + 2)) :
                              /\ p \div (NumArrays + 2) \in ArrayNodes
                              /\ p % (NumArrays + 2) \in ArrayNodes
                              /\ p \div (NumArrays + 2) < p % (NumArrays + 2)})

PairSrc(p) == p \div (NumArrays + 2)

PairTgt(p) == p % (NumArrays + 2)

\* The candidates for a choice of "", "Identity" or "ManyToMany" per pair.
CandidateMappings(kinds) ==
    LET chosen == SelectSeq(ArrayPairs, LAMBDA p : kinds[p] # "")
    IN  [k \in 1..Len(chosen) |->
            IF kinds[chosen[k]] = "Identity"
            THEN IdentityMapping(k, PairSrc(chosen[k]), PairTgt(chosen[k]))
            ELSE ManyToManyMapping(k, PairSrc(chosen[k]), PairTgt(chosen[k]),
                                   IndexNode, IndexNode)]

\* One array more, the first and the last of them the roots, so that a path
\* from root to root can pass through two non-roots: the candidates are a
\* set of pairs of arrays, all of one kind.
WideArrays == NumArrays + 1

WideNodes ==
    <<ImportShapeExpression("input_a")>>
        \o [i \in 1..WideArrays |-> ImportExpression("INT64", 1, "input_a", "key")]
        \o <<JoinLeftExpression("INDEX", 1, 1, 1)>>

WidePairs ==
    SetToSeqAsc({p \in 1..((WideArrays + 2) * (WideArrays + 2)) :
                    /\ p \div (WideArrays + 2) \in 2..(WideArrays + 1)
                    /\ p % (WideArrays + 2) \in 2..(WideArrays + 1)
                    /\ p \div (WideArrays + 2) < p % (WideArrays + 2)})

WideCandidateMappings(edges, kind) ==
    LET chosen == SelectSeq(WidePairs, LAMBDA p : p \in edges)
    IN  [k \in 1..Len(chosen) |->
            IF kind = "Identity"
            THEN IdentityMapping(k, chosen[k] \div (WideArrays + 2),
                                 chosen[k] % (WideArrays + 2))
            ELSE ManyToManyMapping(k, chosen[k] \div (WideArrays + 2),
                                   chosen[k] % (WideArrays + 2),
                                   WideArrays + 2, WideArrays + 2)]

MergeInit ==
    /\ \/ \E kinds \in [Range(ArrayPairs) -> {"", "Identity", "ManyToMany"}],
             root_set \in SUBSET ArrayNodes :
              /\ roots = SetToSeqAsc(root_set)
              /\ merge = MergeStart(MergeNodes, CandidateMappings(kinds), roots,
                                    Len(CandidateMappings(kinds)) + 1)
       \/ \E edges \in SUBSET Range(WidePairs), kind \in {"Identity", "ManyToMany"} :
              /\ roots = <<2, WideArrays + 1>>
              /\ merge = MergeStart(WideNodes, WideCandidateMappings(edges, kind), roots,
                                    Len(WideCandidateMappings(edges, kind)) + 1)
    /\ dag = <<>>
    /\ traversal = [pc |-> "idle", stack |-> <<>>, visited |-> {}, out |-> <<>>]
    /\ RunIdle
    /\ AloneIdle

\* One pass of `for nonroot in nonroots`, the set iterated in any order.
MergeEliminate ==
    /\ merge.error = ""
    /\ \E nonroot \in merge.nonroots : merge' = Eliminate(merge, nonroot)
    /\ UNCHANGED <<run_vars, traverse_vars, alone_vars>>

MergeNext == MergeEliminate

MergeSpec == MergeInit /\ [][MergeNext]_vars

\* The loop over the non-roots has ended without an exception.
MergeDone == merge.error = "" /\ merge.nonroots = {} /\ merge.nodes # <<>>

\* A non-root that the candidates only lead into, or only lead out of.
DeadEnds ==
    {n \in ArrayNodes \ Range(roots) :
        /\ \E k \in 1..Len(merge.mappings) : n \in {merge.mappings[k].src, merge.mappings[k].tgt}
        /\ \/ \A k \in 1..Len(merge.mappings) : merge.mappings[k].src # n
           \/ \A k \in 1..Len(merge.mappings) : merge.mappings[k].tgt # n}

\* C9: every mapping that generate_mappings(roots) yields has both its src
\* and its tgt among the roots, also when a non-root is only the target or
\* only the source of candidate mappings.
C9_MappingsJoinRoots ==
    MergeDone =>
        \A k \in 1..Len(MergeResult(merge)) :
            /\ MergeResult(merge)[k].src \in Range(roots)
            /\ MergeResult(merge)[k].tgt \in Range(roots)

\* Merging has ended with mappings left over, on candidates that had a
\* non-root with mappings on one side only.
C9_Witness ==
    /\ MergeDone
    /\ DeadEnds # {}
    /\ MergeResult(merge) # <<>>

\* ------------------------------------------------ what a SELECT should export

\* The SELECT of a script `WITH a ...; WITH b ...; WITH output AS SELECT ...;
\* EXPORT output TO 'output';`, as a list of at most one element.
SelectOf(script) ==
    IF /\ Len(script) = 4
       /\ script[3].type = "Assignment"
       /\ script[3].expression.type = "Select"
       /\ script[4].type = "Export"
    THEN <<script[3].expression>>
    ELSE <<>>

\* The value of an expression of the script on row `row.a` of table a and
\* row `row.b` of table b.  A column without a table is a column of a.
RECURSIVE RowValue(_, _, _)
RowValue(e, row, data) ==
    CASE e.type = "ColumnReference" ->
             IF e.table_name = "b"
             THEN TableColumn(data["input_b"], e.column_name).data[row.b]
             ELSE TableColumn(data["input_a"], e.column_name).data[row.a]
      [] e.type = "Literal" -> e.value
      [] e.type = "FunctionCall" ->
             RowValue(e.arguments[1], row, data) + RowValue(e.arguments[2], row, data)
      [] e.type = "Add" -> RowValue(e.left, row, data) + RowValue(e.right, row, data)
      [] e.type = "Subtract" -> RowValue(e.left, row, data) - RowValue(e.right, row, data)
      [] e.type = "Multiply" -> RowValue(e.left, row, data) * RowValue(e.right, row, data)
      [] e.type = "Divide" -> RowValue(e.left, row, data) \div RowValue(e.right, row, data)
      [] e.type = "EqualTo" -> RowValue(e.left, row, data) = RowValue(e.right, row, data)

\* No division by zero in the expression on this row.
RECURSIVE RowDefined(_, _, _)
RowDefined(e, row, data) ==
    CASE e.type \in {"ColumnReference", "Literal"} -> TRUE
      [] e.type = "FunctionCall" ->
             \A k \in 1..Len(e.arguments) : RowDefined(e.arguments[k], row, data)
      [] OTHER ->
             /\ RowDefined(e.left, row, data)
             /\ RowDefined(e.right, row, data)
             /\ e.type = "Divide" => RowValue(e.right, row, data) # 0

\* The rows a SELECT ranges over: the rows of a, or the pairs of a row of a
\* and a row of b, that satisfy the ON and the WHERE predicate.
SelectedRows(select, data) ==
    {row \in [a : 1..TableLen(data["input_a"]),
              b : IF select.join = <<>> THEN {0} ELSE 1..TableLen(data["input_b"])] :
        /\ select.join # <<>> => RowValue(select.join[1].predicate, row, data)
        /\ select.where # <<>> => RowValue(select.where[1], row, data)}

RowBefore(p, q) == p.a < q.a \/ (p.a = q.a /\ p.b < q.b)

\* The selected rows by row of a, then by row of b.
ExpectedRows(select, data) ==
    [k \in 1..Cardinality(SelectedRows(select, data)) |->
        CHOOSE q \in SelectedRows(select, data) :
            Cardinality({p \in SelectedRows(select, data) : RowBefore(p, q)}) = k - 1]

\* The column bindings of a SELECT, `*` written out as the columns of a.
RECURSIVE WrittenOut(_)
WrittenOut(columns) ==
    IF columns = <<>> THEN <<>>
    ELSE (IF Head(columns).type = "Wildcard"
          THEN [i \in 1..Len(Schema) |-> ImplicitColumnBinding(Col(Schema[i].name))]
          ELSE <<Head(columns)>>) \o WrittenOut(Tail(columns))

BindingName(binding) ==
    IF binding.type = "Aliased" THEN binding.alias ELSE binding.expression.column_name

\* The column a binding should export: its name and its value on each of
\* the expected rows.
ExpectedColumn(binding, select, data) ==
    NamedArray(BindingName(binding),
               Array("int64",
                     [k \in 1..Len(ExpectedRows(select, data)) |->
                         RowValue(binding.expression, ExpectedRows(select, data)[k], data)]))

\* One column per binding, in the order of the SELECT.
ExpectedTable(select, data) ==
    [i \in 1..Len(WrittenOut(select.columns)) |->
        ExpectedColumn(WrittenOut(select.columns)[i], select, data)]

\* run() has returned and the exporter holds the table `output`.
OutputExported == pc = "done" /\ "output" \in DOMAIN exported

PlainSelects ==
    {select \in Range(SelectOf(source)) :
        select.join = <<>> /\ select.where = <<>> /\ select.group_by = None}

\* The positions of the bindings whose name no earlier binding has.
FirstBindings(columns) ==
    SelectSeq([i \in 1..Len(columns) |-> i],
              LAMBDA i : \A j \in 1..(i - 1) : BindingName(columns[j]) # BindingName(columns[i]))

\* The last binding of the name.
LastBinding(columns, name) ==
    columns[Max({i \in 1..Len(columns) : BindingName(columns[i]) = name})]

\* One column per distinct name, at the place of the first binding of the
\* name and with the values of the last.
ExpectedTableByName(select, data) ==
    [k \in 1..Len(FirstBindings(select.columns)) |->
        ExpectedColumn(
            LastBinding(select.columns,
                        BindingName(select.columns[FirstBindings(select.columns)[k]])),
            select, data)]

\* No binding of the SELECT divides by zero on any row of a.
AllRowsDefined(select, data) ==
    \A i \in 1..Len(select.columns), row \in SelectedRows(select, data) :
        RowDefined(select.columns[i].expression, row, data)

ShapeEvaluatedBefore(k, e) ==
    \E j \in 1..(k - 1) :
        commands[j].type = "EvaluateShape" /\ commands[j].expression = e

ArrayEvaluatedBefore(k, e) ==
    \E j \in 1..(k - 1) :
        commands[j].type = "EvaluateArray" /\ commands[j].expression = e

SinkCommands == {"TraceArray", "ExportTable"}

\* C6: in the command list of run() every TraceArray(e) command and every
\* ExportTable command with a column e comes after the EvaluateArray(e)
\* command, and no evaluation command comes after a trace or export command.
\* The list is looked at when it is built, when its execution begins and when
\* run() ends: executing it does not change it.
C6_SinksFollowEvaluation ==
    (pc = "eval" => ip = 1) =>
    \A k \in 1..Len(commands) :
        /\ commands[k].type = "TraceArray" =>
               ArrayEvaluatedBefore(k, commands[k].expression)
        /\ commands[k].type = "ExportTable" =>
               \A c \in 1..Len(commands[k].columns) :
                   ArrayEvaluatedBefore(k, commands[k].columns[c].expression)
        /\ (commands[k].type \in SinkCommands /\ k < Len(commands)) =>
               commands[k + 1].type \in SinkCommands

\* run() has gone through a command list with export and trace commands,
\* among them the trace of the index array of a mapping.
C6_Witness ==
    /\ pc = "done"
    /\ \E k \in 1..Len(commands) : commands[k].type = "ExportTable"
    /\ \E k \in 1..Len(commands) :
           /\ commands[k].type = "TraceArray"
           /\ commands[k].expression \in MappingRootSet(mappings)

\* C7: when run() fails at a command, the exporter has received no table.
C7_NoPartialExports == pc = "error" => exported = <<>>

\* C8: nothing is evaluated, exported or traced before every statement is
\* lowered, the mappings are generated and the command list is built; a
\* lowering error, in the last statement too, leaves the exporter without a
\* table and the tracer without an array.
C8_CompiledBeforeExecution ==
    /\ (shapes # <<>> \/ arrays # <<>> \/ exported # <<>> \/ traced # <<>>) =>
           /\ statement > Len(source)
           /\ pc \in {"eval", "done", "error"}
           /\ ip >= 1
           /\ commands # <<>>
    /\ (pc = "error" /\ statement <= Len(source)) =>
           /\ exported = <<>>
           /\ traced = <<>>
           /\ arrays = <<>>

\* The last statement has failed to lower, after an EXPORT statement was
\* lowered.
C8_Witness ==
    /\ pc = "error"
    /\ statement = Len(source)
    /\ \E i \in 1..(statement - 1) : source[i].type = "Export"
    /\ exported = <<>>
    /\ traced = <<>>

\* The mapping that _mappings_for_pick_expression yields from the source of
\* a Pick to the Pick.
IsPickMapping(mapping) ==
    /\ mapping.kind = "ManyToMany"
    /\ nodes[mapping.tgt].kind = "Pick"
    /\ nodes[mapping.tgt].source = mapping.src
    /\ nodes[mapping.tgt].indexes = mapping.tgt_index
    /\ nodes[mapping.src_index].kind = "Range"

\* src_index and tgt_index pair rows of src with rows of tgt of equal value.
PairsRows(src_index, tgt_index, src, tgt) ==
    /\ Len(src_index) = Len(tgt_index)
    /\ \A i \in 1..Len(src_index) :
           /\ src_index[i] \in 0..(Len(src) - 1)
           /\ tgt_index[i] \in 0..(Len(tgt) - 1)
           /\ tgt[tgt_index[i] + 1] = src[src_index[i] + 1]

\* C10: the evaluated src_index and tgt_index of the mapping from the source
\* of out = Pick(source, indexes) to out have one length, src_index[i] is a
\* row of source, tgt_index[i] a row of out, and out[tgt_index[i]] =
\* source[src_index[i]].
C10_PickMappingPairsRows ==
    pc = "done" =>
        \A k \in 1..Len(mappings) :
            IsPickMapping(mappings[k]) =>
                PairsRows(arrays[mappings[k].src_index].data,
                          arrays[mappings[k].tgt_index].data,
                          arrays[mappings[k].src].data,
                          arrays[mappings[k].tgt].data)

\* ------------------------------------------------- the mappings of run()

\* A mapping into out = Where(source, mask) that carries the index pair
\* _mappings_for_where_expression builds for out: the mapping it yields, or
\* that mapping behind Identity mappings.  A composition of two ManyToMany
\* mappings has a Pick for tgt_index.
IsWhereMapping(mapping) ==
    /\ mapping.kind = "ManyToMany"
    /\ nodes[mapping.tgt].kind = "Where"
    /\ nodes[mapping.tgt_index].kind = "Range"
    /\ nodes[mapping.tgt_index].shape = nodes[mapping.tgt].shape

\* The positions, from 0, of the true entries of a mask, ascending.
TruePositions(mask) == SetToSeqAsc({i - 1 : i \in {j \in 1..Len(mask) : mask[j]}})

WhereIndexes(src_index, tgt_index, src, mask, out) ==
    /\ src_index = TruePositions(mask)
    /\ tgt_index = [i \in 1..Len(out) |-> i - 1]
    /\ Len(src_index) = Len(tgt_index)
    /\ \A i \in 1..Len(src_index) :
           /\ out[tgt_index[i] + 1] = src[src_index[i] + 1]
           /\ mask[src_index[i] + 1]

\* C11: for the mappings generated for out = Where(source, mask), src_index
\* evaluates to the positions of the true entries of mask, ascending, and
\* tgt_index to [0 .. |out|-1]: they have one length, and for every i
\* out[tgt_index[i]] = source[src_index[i]] and mask[src_index[i]] is true.
C11_WhereMappingIndexes ==
    pc = "done" =>
        \A k \in 1..Len(mappings) :
            IsWhereMapping(mappings[k]) =>
                WhereIndexes(arrays[mappings[k].src_index].data,
                             arrays[mappings[k].tgt_index].data,
                             arrays[nodes[mappings[k].tgt].source].data,
                             arrays[nodes[mappings[k].tgt].mask].data,
                             arrays[mappings[k].tgt].data)

\* A Where mapping was evaluated on a mask with a true and a false entry.
C11_Witness ==
    /\ pc = "done"
    /\ \E k \in 1..Len(mappings) :
           /\ IsWhereMapping(mappings[k])
           /\ TRUE \in Range(arrays[nodes[mappings[k].tgt].mask].data)
           /\ FALSE \in Range(arrays[nodes[mappings[k].tgt].mask].data)

\* A mapping that _merge_mapping_pair composed of two ManyToMany mappings
\* (A -> B; sA, tB) and (B -> C; sB, tC): only such a mapping has a Pick for
\* src_index.
IsComposedMapping(mapping) ==
    /\ mapping.kind = "ManyToMany"
    /\ nodes[mapping.src_index].kind = "Pick"
    /\ nodes[mapping.tgt_index].kind = "Pick"

ComposedMask(mapping) == nodes[nodes[mapping.src_index].indexes].mask

\* The positions (l, r) at which the two mappings meet, by l and then by r.
Meeting(tB, sB) ==
    LET met == {p \in (1..Len(tB)) \X (1..Len(sB)) : tB[p[1]] = sB[p[2]]}
    IN  [k \in 1..Cardinality(met) |->
            CHOOSE p \in met :
                Cardinality({q \in met : q[1] < p[1] \/ (q[1] = p[1] /\ q[2] < p[2])}) = k - 1]

\* The index pair is the relational composition of (sA, tB) and (sB, tC).
IsComposition(src_index, tgt_index, sA, tB, sB, tC) ==
    /\ src_index = [k \in 1..Len(Meeting(tB, sB)) |-> sA[Meeting(tB, sB)[k][1]]]
    /\ tgt_index = [k \in 1..Len(Meeting(tB, sB)) |-> tC[Meeting(tB, sB)[k][2]]]

\* C12: composing ManyToMany(A -> B; sA, tB) with ManyToMany(B -> C; sB, tC)
\* yields a ManyToMany(A -> C) whose evaluated index pairs are the pairs
\* (sA[l], tC[r]) for the positions l, r with tB[l] = sB[r], one pair for
\* each such (l, r) and no other pair.
C12_ComposedIndexPairs ==
    pc = "done" =>
        \A k \in 1..Len(mappings) :
            IsComposedMapping(mappings[k]) =>
                IsComposition(
                    arrays[mappings[k].src_index].data,
                    arrays[mappings[k].tgt_index].data,
                    arrays[nodes[mappings[k].src_index].source].data,
                    arrays[nodes[nodes[ComposedMask(mappings[k])].source_a].source].data,
                    arrays[nodes[nodes[ComposedMask(mappings[k])].source_b].source].data,
                    arrays[nodes[mappings[k].tgt_index].source].data)

\* A composed mapping was evaluated to two pairs or more, on index arrays
\* of which some positions do not meet.
C12_Witness ==
    /\ pc = "done"
    /\ \E k \in 1..Len(mappings) :
           /\ IsComposedMapping(mappings[k])
           /\ Len(arrays[mappings[k].src_index].data) >= 2
           /\ FALSE \in Range(arrays[ComposedMask(mappings[k])].data)

\* tgt is computed row by row from src: it is src, a binary operation on an
\* array computed row by row from src, or a Pick through such an array.
RECURSIVE Rowwise(_, _)
Rowwise(src, tgt) ==
    \/ tgt = src
    \/ /\ nodes[tgt].kind \in BinaryKinds
       /\ Rowwise(src, nodes[tgt].source_a) \/ Rowwise(src, nodes[tgt].source_b)
    \/ /\ nodes[tgt].kind = "Pick"
       /\ Rowwise(src, nodes[tgt].indexes)

IdentityMappings == {k \in 1..Len(mappings) : mappings[k].kind = "Identity"}

\* C13 as stated: for every Identity(A -> B) mapping of the manifest the
\* evaluated arrays are equal element by element.
C13_Stated ==
    pc = "done" =>
        \A k \in IdentityMappings :
            /\ arrays[mappings[k].src].type = arrays[mappings[k].tgt].type
            /\ arrays[mappings[k].src].data = arrays[mappings[k].tgt].data

\* C13: for every Identity(A -> B) mapping of the manifest, B is not A but is
\* computed from A row by row, through binary operations that have A, or an
\* array so computed from A, as an operand: row i of B is computed from row i
\* of A and the two arrays have as many rows, while their values may differ.
C13_IdentityIsRowwise ==
    pc = "done" =>
        \A k \in IdentityMappings :
            /\ mappings[k].src # mappings[k].tgt
            /\ Rowwise(mappings[k].src, mappings[k].tgt)
            /\ DOMAIN arrays[mappings[k].src].data = DOMAIN arrays[mappings[k].tgt].data

\* The manifest has an Identity mapping between two arrays of two rows that
\* are not equal.
C13_Witness ==
    /\ pc = "done"
    /\ \E k \in IdentityMappings :
           /\ Len(arrays[mappings[k].src].data) = 2
           /\ arrays[mappings[k].src].data # arrays[mappings[k].tgt].data

\* The mappings generated per node for the expressions that the trace tables
\* reach, before any of them is composed.
Candidates ==
    _generate_candidate_mappings(
        get_table_roots(extract_trace_tables(filter_tables(tables)), order),
        MappingState(nodes, <<>>, 1)).mappings

SameLength(mapping) ==
    (mapping.src \in DOMAIN arrays /\ mapping.tgt \in DOMAIN arrays)
        => Len(arrays[mapping.src].data) = Len(arrays[mapping.tgt].data)

\* C14: every Identity(src, tgt) mapping, generated per node or composed from
\* Identity mappings, connects two arrays that evaluate to the same number of
\* rows.
C14_IdentitySameLength ==
    pc = "done" =>
        /\ \A k \in IdentityMappings : SameLength(mappings[k])
        /\ LET candidates == Candidates
           IN  \A k \in 1..Len(candidates) :
                   candidates[k].kind = "Identity" => SameLength(candidates[k])

\* A join of inputs of different lengths ends with per-node Identity
\* mappings of a Pick and of an addition, between evaluated arrays with rows.
C14_Witness ==
    /\ pc = "done"
    /\ TableLen(importer["input_a"]) # TableLen(importer["input_b"])
    /\ \A kind \in {"Pick", "Add"} :
           \E k \in 1..Len(Candidates) :
               /\ Candidates[k].kind = "Identity"
               /\ nodes[Candidates[k].tgt].kind = kind
               /\ Candidates[k].src \in DOMAIN arrays
               /\ Candidates[k].tgt \in DOMAIN arrays
               /\ Len(arrays[Candidates[k].tgt].data) > 0

\* The shape expression `s` can be evaluated from the arrays of the context:
\* the mask of every WhereShape below it has been evaluated.
RECURSIVE ShapeReady(_)
ShapeReady(s) ==
    CASE nodes[s].kind = "ImportShape" -> nodes[s].location \in DOMAIN importer
      [] nodes[s].kind = "WhereShape" -> nodes[s].mask \in DOMAIN arrays
      [] nodes[s].kind = "JoinShape" ->
             ShapeReady(nodes[s].shape_a) /\ ShapeReady(nodes[s].shape_b)
      [] OTHER -> FALSE

\* The integer the evaluator computes for the shape expression `s`, the
\* shapes below it evaluated first.
RECURSIVE EvaluateShape(_)
EvaluateShape(s) ==
    CASE nodes[s].kind = "ImportShape" -> eval_expression(nodes[s], EvalContext)
      [] nodes[s].kind = "WhereShape" -> eval_expression(nodes[s], EvalContext)
      [] nodes[s].kind = "JoinShape" ->
             eval_expression(
                 nodes[s],
                 [shapes |-> (nodes[s].shape_a :> EvaluateShape(nodes[s].shape_a))
                                 @@ (nodes[s].shape_b :> EvaluateShape(nodes[s].shape_b)),
                  arrays |-> arrays,
                  importer |-> importer])

RECURSIVE FirstOccurrences(_)
FirstOccurrences(list) ==
    IF list = <<>> THEN <<>>
    ELSE LET front == FirstOccurrences(SubSeq(list, 1, Len(list) - 1))
         IN  IF list[Len(list)] \in Range(front) THEN front
             ELSE Append(front, list[Len(list)])

ColumnNames(table) == [i \in 1..Len(table.columns) |-> table.columns[i].name]

PairwiseDistinct(list) == \A i, j \in 1..Len(list) : list[i] = list[j] => i = j

\* The names the select list of the script binds, in the order of the list.
SelectListNames(select) ==
    [i \in 1..Len(WrittenOut(select.columns)) |-> BindingName(WrittenOut(select.columns)[i])]

ExportTables == {k \in 1..Len(tables) : tables[k].type = "ExportTable"}

\* C16: an ExportTable has no two columns of one name; the ExportTable of a
\* SELECT has the names its select list binds, in the order of the list, a
\* name bound more than once standing once, where it is first bound.
C16_ExportColumns ==
    \A k \in ExportTables :
        /\ PairwiseDistinct(ColumnNames(tables[k]))
        /\ \A select \in Range(SelectOf(source)) :
               ColumnNames(tables[k]) = FirstOccurrences(SelectListNames(select))

\* Lowering has appended the ExportTable of a SELECT that binds a name
\* twice: the table has a column of that name.
C16_Witness ==
    \E k \in ExportTables :
        \E select \in Range(SelectOf(source)) :
            /\ ~PairwiseDistinct(SelectListNames(select))
            /\ tables[k].columns # <<>>
            /\ Range(ColumnNames(tables[k])) = Range(SelectListNames(select))

\* C17: in every table that lowering has appended, a TraceTable of any level
\* or an ExportTable, no two columns have one name.
C17_DistinctColumnNames ==
    \A k \in 1..Len(tables) : PairwiseDistinct(ColumnNames(tables[k]))

\* The array a column expression takes its cells from: the source of the
\* Picks and Wheres above it.
RECURSIVE Origin(_)
Origin(e) == IF nodes[e].kind \in {"Pick", "Where"} THEN Origin(nodes[e].source) ELSE e

\* The import location of the tables of the scripts.
LocationOf(table_name) == IF table_name = "b" THEN "input_b" ELSE "input_a"

\* The expression `e` is what the script expression `expr` stands for when a
\* column `c` is the column c of table a, the source of the SELECT, and `t.c`
\* is the column c of table t.
RECURSIVE Resolves(_, _)
Resolves(expr, e) ==
    CASE expr.type = "ColumnReference" ->
             /\ nodes[Origin(e)].kind = "Import"
             /\ nodes[Origin(e)].name = expr.column_name
             /\ nodes[Origin(e)].location = LocationOf(expr.table_name)
      [] expr.type = "Literal" -> nodes[e].kind \in LiteralKinds /\ nodes[e].value = expr.value
      [] expr.type = "FunctionCall" ->
             /\ nodes[e].kind = "Add"
             /\ Resolves(expr.arguments[1], nodes[e].source_a)
             /\ Resolves(expr.arguments[2], nodes[e].source_b)
      [] OTHER ->
             /\ nodes[e].kind = expr.type
             /\ Resolves(expr.left, nodes[e].source_a)
             /\ Resolves(expr.right, nodes[e].source_b)

\* The column references of an expression of the script.
RECURSIVE References(_)
References(expr) ==
    CASE expr.type = "ColumnReference" -> {expr}
      [] expr.type = "Literal" -> {}
      [] expr.type = "FunctionCall" ->
             UNION {References(expr.arguments[i]) : i \in 1..Len(expr.arguments)}
      [] OTHER -> References(expr.left) \cup References(expr.right)

\* The tables in the scope of a SELECT: its source and the tables it joins.
TablesOf(select) ==
    {select.source.expression.name}
        \cup {select.join[i].table.expression.name : i \in 1..Len(select.join)}

\* The reference names a column of a table in the scope of the SELECT.
InScope(reference, select) ==
    /\ reference.column_name \in {Schema[i].name : i \in 1..Len(Schema)}
    /\ reference.table_name \in TablesOf(select) \cup {None}

\* The column references of a SELECT: those of its ON and WHERE predicates
\* and of its select list.
SelectReferences(select) ==
    UNION ({References(select.join[i].predicate) : i \in 1..Len(select.join)}
           \cup {References(select.where[i]) : i \in 1..Len(select.where)}
           \cup {References(select.columns[i].expression) :
                    i \in {j \in 1..Len(select.columns) : select.columns[j].type # "Wildcard"}})

\* The mask a column of a SELECT with one predicate was filtered by.
MaskOf(e) ==
    IF nodes[e].kind = "Pick" THEN nodes[nodes[e].indexes].mask ELSE nodes[e].mask

\* The STATEMENT tables that lowering appended for the SELECT.
SelectTables(select) ==
    {k \in 1..Len(tables) :
        /\ tables[k].type = "TraceTable"
        /\ tables[k].level = "STATEMENT"
        /\ tables[k].ast_node = select.start}

\* The statement of the script that lowering stopped at is this SELECT.
StoppedAt(select) ==
    /\ pc = "error"
    /\ statement <= Len(source)
    /\ source[statement].type = "Assignment"
    /\ source[statement].expression = select

SelectStatements ==
    {source[i].expression :
        i \in {j \in 1..Len(source) :
                  source[j].type = "Assignment" /\ source[j].expression.type = "Select"}}

\* C18: a column reference `c` stands for the first column named c of the
\* scope, which in a join is the column of the source table, and `t.c`
\* for the column c of table t: every column of a lowered SELECT, and the mask
\* of its predicate, is the expression its references so resolved give.  A
\* SELECT with a reference that names no column of the scope is not lowered:
\* lowering fails with "could not find".
C18_ReferencesResolve ==
    \A select \in SelectStatements :
        /\ \A k \in SelectTables(select) :
               /\ \A reference \in SelectReferences(select) : InScope(reference, select)
               /\ PairwiseDistinct(SelectListNames(select)) =>
                      \A i \in 1..Len(tables[k].columns) :
                          Resolves(WrittenOut(select.columns)[i].expression,
                                   tables[k].columns[i].expression)
               /\ \A i \in 1..Len(select.join) :
                      Resolves(select.join[i].predicate,
                               MaskOf(tables[k].columns[1].expression))
               /\ \A i \in 1..Len(select.where) :
                      Resolves(select.where[i], MaskOf(tables[k].columns[1].expression))
        /\ (StoppedAt(select)
               /\ \E reference \in SelectReferences(select) : ~InScope(reference, select))
             => error = "could not find"

\* A join has been lowered in which `key`, a column of both tables, and
\* `b.value` are selected.
C18_Witness ==
    \E select \in SelectStatements :
        /\ SelectTables(select) # {}
        /\ select.join # <<>>
        /\ Col("key") \in SelectReferences(select)
        /\ QCol("b", "value") \in SelectReferences(select)

\* The select-list entries without alias that are a bare column reference to
\* a column in the scope of the SELECT.
BareReferences(select) ==
    {i \in 1..Len(select.columns) :
        /\ select.columns[i].type = "Implicit"
        /\ select.columns[i].expression.type = "ColumnReference"
        /\ InScope(select.columns[i].expression, select)}

\* C19: a select-list entry without alias that is a bare column reference,
\* `c` or `t.c`, to a column in scope is lowered, and the table of the SELECT
\* has the column c for it.
C19_BareReferenceNames ==
    \A select \in SelectStatements :
        ( /\ BareReferences(select) # {}
          /\ select.group_by = None
          /\ \A reference \in SelectReferences(select) : InScope(reference, select) )
        => /\ ~StoppedAt(select)
           /\ \A k \in SelectTables(select) :
                  \A i \in BareReferences(select) :
                      /\ select.columns[i].expression.column_name
                             \in Range(ColumnNames(tables[k]))
                      /\ \E j \in 1..Len(tables[k].columns) :
                             /\ tables[k].columns[j].name
                                    = select.columns[i].expression.column_name
                             /\ Resolves(select.columns[i].expression,
                                         tables[k].columns[j].expression)

\* The table references of a statement of the script.
TableReferences(stmt) ==
    IF stmt.expression.type = "TableReference" THEN {stmt.expression}
    ELSE IF stmt.expression.type = "Select"
    THEN {stmt.expression.source.expression}
             \cup {stmt.expression.join[i].table.expression :
                      i \in 1..Len(stmt.expression.join)}
    ELSE {}

\* The statements `WITH target AS ...` before statement j of the script.
WithsBefore(j, target) ==
    {i \in 1..(j - 1) : source[i].type = "Assignment" /\ source[i].target = target}

TablesOfNode(ast_node) ==
    {k \in 1..Len(tables) : tables[k].type = "TraceTable" /\ tables[k].ast_node = ast_node}

\* The one table appended for the AST node has the level and the columns.
OneTable(ast_node, level, columns) ==
    /\ Cardinality(TablesOfNode(ast_node)) = 1
    /\ \A k \in TablesOfNode(ast_node) :
           tables[k].level = level /\ tables[k].columns = columns

\* C20: once statement j is lowered, each reference in it to a table bound
\* by WITH has appended exactly one TABLE_EXPRESSION table, whose columns
\* have the names, in order, and the expression nodes of the one STATEMENT
\* table that the last WITH for the name before j appended; the name stays
\* bound to those columns, each with namespaces {None}, until it is bound
\* again.
C20_ReferenceYieldsBinding ==
    \A j \in 1..(statement - 1) :
        /\ \A reference \in TableReferences(source[j]) :
               /\ WithsBefore(j, reference.name) # {}
               /\ \A k \in TablesOfNode(source[Max(WithsBefore(j, reference.name))].start) :
                      OneTable(reference.start, "TABLE_EXPRESSION", tables[k].columns)
        /\ source[j].type = "Assignment" =>
               /\ Cardinality(TablesOfNode(source[j].start)) = 1
               /\ \A k \in TablesOfNode(source[j].start) : tables[k].level = "STATEMENT"
               /\ j = Max(WithsBefore(statement, source[j].target)) =>
                      /\ source[j].target \in DOMAIN bindings
                      /\ OneTable(source[j].start, "STATEMENT",
                                  TableColumns(bindings[source[j].target]))
                      /\ \A i \in 1..Len(bindings[source[j].target]) :
                             bindings[source[j].target][i].namespaces = {None}

\* A statement is lowered that refers to a name which two WITH statements
\* before it bind, to columns of different expression nodes.
C20_Witness ==
    \E j \in 1..(statement - 1) :
        \E reference \in TableReferences(source[j]) :
            /\ Cardinality(WithsBefore(j, reference.name)) = 2
            /\ \A k \in TablesOfNode(reference.start) : tables[k].columns # <<>>
            /\ \E k \in TablesOfNode(source[Min(WithsBefore(j, reference.name))].start) :
                   \A l \in TablesOfNode(reference.start) :
                       tables[k].columns # tables[l].columns

IsPrefix(short, long) ==
    Len(short) <= Len(long) /\ SubSeq(long, 1, Len(short)) = short

\* The EXPORT statements that lowering has passed, in statement order.
LoweredExports ==
    SelectSeq([j \in 1..(statement - 1) |-> source[j]], LAMBDA stmt : stmt.type = "Export")

\* The ExportTables of the program, in program order.
ProgramExports == SelectSeq(tables, LAMBDA table : table.type = "ExportTable")

\* The tables of the EXPORT statement: one EXPORT-level TraceTable, and
\* right after it an ExportTable of the same columns under the location.
ExportPair(stmt) ==
    /\ Cardinality(TablesOfNode(stmt.start)) = 1
    /\ \A k \in TablesOfNode(stmt.start) :
           /\ tables[k].level = "EXPORT"
           /\ k < Len(tables)
           /\ tables[k + 1] = ExportTable(stmt.location, tables[k].columns)

\* C21: every EXPORT statement that lowering has passed has appended one
\* EXPORT-level TraceTable and, right after it, one ExportTable of the same
\* columns under the statement's location; the ExportTables of the program
\* are those of the EXPORT statements, in statement order; and a step never
\* removes or reorders the tables already appended.
C21_ExportAppends ==
    /\ [](/\ \A i \in 1..Len(LoweredExports) : ExportPair(LoweredExports[i])
          /\ Len(ProgramExports) = Len(LoweredExports)
          /\ \A i \in 1..Len(ProgramExports) :
                 ProgramExports[i].export_as = LoweredExports[i].location)
    /\ [][IsPrefix(tables, tables')]_vars

\* Two EXPORT statements are lowered, to two locations.
C21_Witness ==
    /\ Len(LoweredExports) = 2
    /\ LoweredExports[1].location # LoweredExports[2].location
    /\ \A i \in 1..2 : ExportPair(LoweredExports[i])

\* ------------------------------------------------ tokenize and parse alone

\* A string is the list of its characters.
UpperCase ==
    {"A", "B", "C", "D", "E", "F", "G", "H", "I", "J", "K", "L", "M", "N", "O", "P", "Q",
     "R", "S", "T", "U", "V", "W", "X", "Y", "Z"}

LowerCase ==
    {"a", "b", "c", "d", "e", "f", "g", "h", "i", "j", "k", "l", "m", "n", "o", "p", "q",
     "r", "s", "t", "u", "v", "w", "x", "y", "z"}

Digits == {"0", "1", "2", "3", "4", "5", "6", "7", "8", "9"}

_is_whitespace(c) == c \in {" ", "\n", "\t"}

_is_id_start(c) == c \in LowerCase \cup UpperCase \cup {"_"}

_is_id_continue(c) == c \in LowerCase \cup UpperCase \cup Digits \cup {"_", "-"}

\* lexer.py: the token class of each keyword.
_KEYWORD_TOKEN_CLASSES ==
    (<<"B", "E", "G", "I", "N">> :> "Begin")
    @@ (<<"U", "P", "D", "A", "T", "E">> :> "Update")
    @@ (<<"S", "E", "L", "E", "C", "T">> :> "Select")
    @@ (<<"D", "I", "S", "T", "I", "N", "C", "T">> :> "Distinct")
    @@ (<<"C", "O", "N", "S", "E", "C", "U", "T", "I", "V", "E">> :> "Consecutive")
    @@ (<<"A", "S">> :> "As")
    @@ (<<"F", "R", "O", "M">> :> "From")
    @@ (<<"J", "O", "I", "N">> :> "Join")
    @@ (<<"O", "N">> :> "On")
    @@ (<<"W", "H", "E", "R", "E">> :> "Where")
    @@ (<<"W", "I", "T", "H">> :> "With")
    @@ (<<"I", "M", "P", "O", "R", "T">> :> "Import")
    @@ (<<"E", "X", "P", "O", "R", "T">> :> "Export")
    @@ (<<"T", "O">> :> "To")
    @@ (<<"T", "R", "U", "E">> :> "True_")
    @@ (<<"F", "A", "L", "S", "E">> :> "False_")

\* `while pred(self._peek()): self._bump()`: the cursor after the characters
\* from `cursor` on that are in `chars`.
RECURSIVE Skip(_, _, _)
Skip(string, cursor, chars) ==
    IF cursor < Len(string) /\ string[cursor + 1] \in chars
    THEN Skip(string, cursor + 1, chars)
    ELSE cursor

Scanned(class, end) == [class |-> class, end |-> end]

\* The class of the identifier string[cursor + 1 .. end].
IdentifierClass(token) ==
    IF token \in DOMAIN _KEYWORD_TOKEN_CLASSES THEN _KEYWORD_TOKEN_CLASSES[token]
    ELSE IF token[1] \in UpperCase THEN "Type"
    ELSE "Name"

\* A number: digits, and a fraction if a "." follows them.
NumberClass(string, digits_end) ==
    IF digits_end < Len(string) /\ string[digits_end + 1] = "."
    THEN Scanned("Float", Skip(string, digits_end + 1, Digits))
    ELSE Scanned("Integer", digits_end)

\* _Tokenizer._next_class from `cursor`: the class of the token and the
\* cursor after it.  The strings of the model hold whitespace, identifiers,
\* numbers and the punctuation below; the branches for comments, quoted
\* names, strings and the other operators are not reached.
_next_class(string, cursor) ==
    LET curr == string[cursor + 1]
    IN  CASE _is_whitespace(curr) ->
                 Scanned("Whitespace", Skip(string, cursor + 1, {" ", "\n", "\t"}))
          [] curr \in Digits -> NumberClass(string, Skip(string, cursor + 1, Digits))
          [] _is_id_start(curr) ->
                 Scanned(IdentifierClass(
                             SubSeq(string, cursor + 1,
                                    Skip(string, cursor + 1,
                                         LowerCase \cup UpperCase \cup Digits \cup {"_", "-"}))),
                         Skip(string, cursor + 1,
                              LowerCase \cup UpperCase \cup Digits \cup {"_", "-"}))
          [] curr = ";" -> Scanned("Semicolon", cursor + 1)
          [] curr = "," -> Scanned("Comma", cursor + 1)
          [] curr = "." -> Scanned("Dot", cursor + 1)
          [] curr = "=" -> Scanned("Eq", cursor + 1)
          [] curr = "*" ->
                 IF cursor + 1 < Len(string) /\ string[cursor + 2] = "="
                 THEN Scanned("StarEqual", cursor + 2)
                 ELSE Scanned("Star", cursor + 1)
          [] OTHER -> Scanned("Unknown", cursor + 1)

Token(class, text) == [class |-> class, text |-> text]

\* _Tokenizer.next_token
next_token(string, cursor) ==
    Token(_next_class(string, cursor).class,
          SubSeq(string, cursor + 1, _next_class(string, cursor).end))

\* parser.py, _filter_tokens
_filter_tokens(tokens) ==
    SelectSeq(tokens,
              LAMBDA token : token.class \notin {"LineComment", "BlockComment", "Whitespace"})

\* The grammar that parser.py registers, for the statements of the model:
\* the position after the longest phrase of the kind that starts at position
\* i of the token classes, or 0 when no phrase of the kind starts there.
ClassAt(classes, i) == IF i \in 1..Len(classes) THEN classes[i] ELSE "<EOF>"

\* ColumnName: Name | Name Dot Name;  Literal: Integer
AtomEnd(classes, i) ==
    IF ClassAt(classes, i) = "Integer" THEN i + 1
    ELSE IF ClassAt(classes, i) # "Name" THEN 0
    ELSE IF ClassAt(classes, i + 1) = "Dot" /\ ClassAt(classes, i + 2) = "Name" THEN i + 3
    ELSE i + 1

\* Expression: an atom, or two atoms about an "="
ExpressionEnd(classes, i) ==
    IF AtomEnd(classes, i) = 0 THEN 0
    ELSE IF /\ ClassAt(classes, AtomEnd(classes, i)) = "Eq"
            /\ AtomEnd(classes, AtomEnd(classes, i) + 1) # 0
    THEN AtomEnd(classes, AtomEnd(classes, i) + 1)
    ELSE AtomEnd(classes, i)

\* ColumnBinding: Star | Expression | Expression As Name
ColumnBindingEnd(classes, i) ==
    IF ClassAt(classes, i) = "Star" THEN i + 1
    ELSE IF ExpressionEnd(classes, i) = 0 THEN 0
    ELSE IF /\ ClassAt(classes, ExpressionEnd(classes, i)) = "As"
            /\ ClassAt(classes, ExpressionEnd(classes, i) + 1) = "Name"
    THEN ExpressionEnd(classes, i) + 2
    ELSE ExpressionEnd(classes, i)

\* Annotated[List[...], Delimiter(t.Comma)]: phrases of one kind with commas
\* between them; `column` tells column bindings from expressions.
RECURSIVE ListEnd(_, _, _)
ListEnd(classes, i, column) ==
    LET first == IF column THEN ColumnBindingEnd(classes, i) ELSE ExpressionEnd(classes, i)
    IN  IF first = 0 THEN 0
        ELSE IF ClassAt(classes, first) = "Comma" /\ ListEnd(classes, first + 1, column) # 0
        THEN ListEnd(classes, first + 1, column)
        ELSE first

\* Optional[WhereClause]: Where Expression
WhereClauseEnd(classes, i) ==
    IF ClassAt(classes, i) = "Where" /\ ExpressionEnd(classes, i + 1) # 0
    THEN ExpressionEnd(classes, i + 1)
    ELSE i

\* Optional[GroupByClause]: Group By expressions | Group Consecutive By
\* expressions
GroupByClauseEnd(classes, i) ==
    IF /\ ClassAt(classes, i) = "Group"
       /\ ClassAt(classes, i + 1) = "By"
       /\ ListEnd(classes, i + 2, FALSE) # 0
    THEN ListEnd(classes, i + 2, FALSE)
    ELSE IF /\ ClassAt(classes, i) = "Group"
            /\ ClassAt(classes, i + 1) = "Consecutive"
            /\ ClassAt(classes, i + 2) = "By"
            /\ ListEnd(classes, i + 3, FALSE) # 0
    THEN ListEnd(classes, i + 3, FALSE)
    ELSE i

\* SelectExpression: Select column bindings, From Name, the optional clauses
SelectExpressionEnd(classes, i) ==
    IF ClassAt(classes, i) # "Select" \/ ListEnd(classes, i + 1, TRUE) = 0 THEN 0
    ELSE IF \/ ClassAt(classes, ListEnd(classes, i + 1, TRUE)) # "From"
            \/ ClassAt(classes, ListEnd(classes, i + 1, TRUE) + 1) # "Name"
    THEN 0
    ELSE GroupByClauseEnd(classes,
                          WhereClauseEnd(classes, ListEnd(classes, i + 1, TRUE) + 2))

\* The select expression that starts at i has a GROUP BY clause.
HasGroupByClause(classes, i) ==
    /\ SelectExpressionEnd(classes, i) # 0
    /\ GroupByClauseEnd(classes, WhereClauseEnd(classes, ListEnd(classes, i + 1, TRUE) + 2))
           # WhereClauseEnd(classes, ListEnd(classes, i + 1, TRUE) + 2)

\* parse(tokens), for one AssignmentStatement: With TableName As
\* TableExpression Semicolon.  The tokens are a statement list or parse()
\* raises.
parse_ok(classes) ==
    /\ ClassAt(classes, 1) = "With"
    /\ ClassAt(classes, 2) = "Name"
    /\ ClassAt(classes, 3) = "As"
    /\ SelectExpressionEnd(classes, 4) # 0
    /\ ClassAt(classes, SelectExpressionEnd(classes, 4)) = "Semicolon"
    /\ SelectExpressionEnd(classes, 4) = Len(classes)

Classes(tokens) == [i \in 1..Len(tokens) |-> tokens[i].class]

\* The pieces of the strings of the model.
\* "WITH output AS SELECT "
TextWith ==
    <<"W", "I", "T", "H", " ", "o", "u", "t", "p", "u", "t", " ", "A", "S", " ", "S", "E",
      "L", "E", "C", "T", " ">>

\* " FROM a"
TextFrom ==
    <<" ", "F", "R", "O", "M", " ", "a">>

\* " WHERE key = 1"
TextWhere ==
    <<" ", "W", "H", "E", "R", "E", " ", "k", "e", "y", " ", "=", " ", "1">>

\* " GROUP BY key"
TextGroupBy ==
    <<" ", "G", "R", "O", "U", "P", " ", "B", "Y", " ", "k", "e", "y">>

\* " GROUP CONSECUTIVE BY key"
TextGroupConsecutiveBy ==
    <<" ", "G", "R", "O", "U", "P", " ", "C", "O", "N", "S", "E", "C", "U", "T", "I", "V",
      "E", " ", "B", "Y", " ", "k", "e", "y">>

\* ";"
TextEnd ==
    <<";">>

\* The select lists: "key", "key, value AS v", "*"
TextColumns ==
    {<<"k", "e", "y">>,
     <<"k", "e", "y", ",", " ", "v", "a", "l", "u", "e", " ", "A", "S", " ", "v">>,
     <<"*">>}

\* WITH output AS SELECT columns FROM a [WHERE key = 1] [GROUP [CONSECUTIVE]
\* BY key];
Texts ==
    {TextWith \o columns \o TextFrom \o where \o group \o TextEnd :
        columns \in TextColumns,
        where \in {<<>>, TextWhere},
        group \in {<<>>, TextGroupBy, TextGroupConsecutiveBy}}

\* The string has the words GROUP and BY after its FROM clause.
RECURSIVE Occurs(_, _)
Occurs(word, string) ==
    /\ Len(string) >= Len(word)
    /\ \/ SubSeq(string, 1, Len(word)) = word
       \/ Occurs(word, Tail(string))

\* run(): tokens = tokenize(source)
LexInit ==
    /\ \E string \in Texts : lexer = [string |-> string, cursor |-> 0, tokens |-> <<>>,
                                       pc |-> "tokenize"]
    /\ RewriteIdle
    /\ RunIdle
    /\ TraverseIdle
    /\ MergeIdle

\* `while not tokenizer.is_eof(): yield tokenizer.next_token()`
LexNextToken ==
    /\ lexer.pc = "tokenize"
    /\ lexer.cursor < Len(lexer.string)
    /\ lexer' = [lexer EXCEPT
                     !.tokens = Append(@, next_token(lexer.string, lexer.cursor)),
                     !.cursor = _next_class(lexer.string, lexer.cursor).end]
    /\ UNCHANGED <<run_vars, traverse_vars, merge, rewrite>>

\* ast = parse(tokens): the statement list, or the parser raises.
LexParse ==
    /\ lexer.pc = "tokenize"
    /\ lexer.cursor >= Len(lexer.string)
    /\ lexer' = [lexer EXCEPT
                     !.pc = IF parse_ok(Classes(_filter_tokens(lexer.tokens)))
                            THEN "parsed" ELSE "error"]
    /\ UNCHANGED <<run_vars, traverse_vars, merge, rewrite>>

LexNext == LexNextToken \/ LexParse

LexSpec == LexInit /\ [][LexNext]_vars

\* C22: a script whose SELECT carries a GROUP BY clause is tokenized and
\* parsed, to a select expression with a GROUP BY clause, which lowering then
\* rejects: the parser does not raise.
C22_GroupByParses ==
    (Occurs(TextGroupBy, lexer.string) \/ Occurs(TextGroupConsecutiveBy, lexer.string))
        => /\ lexer.pc # "error"
           /\ lexer.pc = "parsed" =>
                  HasGroupByClause(Classes(_filter_tokens(lexer.tokens)), 4)

\* C23: in a run with a tracer the manifest is written once, before the
\* commands are executed and so before any array is written; a manifest
\* written is never written again; a run without a tracer writes neither.
C23_ManifestOnceAndFirst ==
    /\ [](/\ Len(manifest) <= 1
          /\ traced # <<>> => Len(manifest) = 1
          /\ (tracing /\ pc \in {"context", "eval", "done"}) => Len(manifest) = 1
          /\ ~tracing => (manifest = <<>> /\ traced = <<>>))
    /\ [][manifest # <<>> => manifest' = manifest]_vars

\* A run with a tracer has ended: the tracer holds the manifest and arrays.
C23_Witness ==
    /\ pc = "done"
    /\ tracing
    /\ Len(manifest) = 1
    /\ traced # <<>>

\* The array identifiers that the manifest refers to.
ManifestArrays(written) ==
    UNION {{written.snapshots[i].columns[j].array :
               j \in 1..Len(written.snapshots[i].columns)} :
              i \in 1..Len(written.snapshots)}
    \cup UNION {{written.mappings[i].src_array, written.mappings[i].tgt_array}
                    \cup (IF written.mappings[i].kind = "ManyToMany"
                          THEN {written.mappings[i].src_index_array,
                                written.mappings[i].tgt_index_array}
                          ELSE {}) :
                   i \in 1..Len(written.mappings)}

TraceCommandsOf(uuid) ==
    {k \in 1..Len(commands) : commands[k].type = "TraceArray" /\ commands[k].uuid = uuid}

\* C24: when a run with a tracer has ended, each array identifier in the
\* manifest is that of exactly one TraceArray command, the tracer holds under
\* it the array evaluated for the expression that bears it, and the build of
\* the manifest has not failed on an expression without identifier.
C24_ManifestArraysTraced ==
    /\ (pc = "error" /\ statement > Len(source) /\ ip = 0) => error # "KeyError"
    /\ (pc = "done" /\ tracing) =>
           \A uuid \in ManifestArrays(manifest[1]) :
               /\ Cardinality(TraceCommandsOf(uuid)) = 1
               /\ uuid \in DOMAIN traced
               /\ \A k \in TraceCommandsOf(uuid) :
                      /\ names[commands[k].expression] = uuid
                      /\ traced[uuid] = arrays[commands[k].expression]

\* A traced run of a join has ended: the manifest refers to the columns of
\* its tables and to the index arrays of its mappings.
C24_Witness ==
    /\ pc = "done"
    /\ tracing
    /\ \E i \in 1..Len(manifest[1].mappings) : manifest[1].mappings[i].kind = "ManyToMany"
    /\ \E uuid \in ManifestArrays(manifest[1]) : Len(traced[uuid].data) >= 2

\* ---------------------------------------------------------- ir.map alone

\* The state of a call of map: the memo `mapping`, the expressions that
\* `function` was applied to, in order, and the exception raised, if any.
Rewriting(mapping, calls, raised) == [mapping |-> mapping, calls |-> calls, error |-> raised]

\* The children that the _transform_children handler of the expression
\* transforms, in order; ImportExpression has a handler that transforms none.
TransformedChildren(node) ==
    CASE node.kind = "Import" -> <<>>
      [] node.kind = "Where" -> <<node.shape, node.source, node.mask>>
      [] node.kind = "Pick" -> <<node.shape, node.source, node.indexes>>
      [] node.kind \in {"JoinLeft", "JoinRight"} -> <<node.shape, node.shape_a, node.shape_b>>
      [] node.kind = "Add" -> <<node.shape, node.source_a, node.source_b>>

\* singledispatch: the expression classes with a registered handler.
HasTransformChildren(node) == node.kind \in {"Import", "Where", "Pick", "JoinLeft", "JoinRight", "Add"}

RECURSIVE _transform(_, _, _)

RECURSIVE TransformAll(_, _, _)
TransformAll(ns, children, state) ==
    IF children = <<>> \/ state.error # "" THEN state
    ELSE TransformAll(ns, Tail(children), _transform(ns, Head(children), state))

\* mapping[expr] = function(_transform_children(expr, transform=_transform)),
\* with `function` the identity: every child comes back as it is, so the
\* handler returns the expression itself.
Transformed(expr, state) ==
    IF state.error # "" THEN state
    ELSE Rewriting((expr :> expr) @@ state.mapping, Append(state.calls, expr), "")

_transform(ns, expr, state) ==
    IF state.error # "" \/ expr \in DOMAIN state.mapping THEN state
    ELSE IF ~HasTransformChildren(ns[expr])
    THEN Rewriting(state.mapping, state.calls, "NotImplementedError")
    ELSE Transformed(expr, TransformAll(ns, TransformedChildren(ns[expr]), state))

\* map(function, roots): [_transform(root) for root in roots]
map(ns, rs) == TransformAll(ns, rs, Rewriting(<<>>, <<>>, ""))

\* The expressions under an ImportShape and two Imports: one of each other
\* kind, over them.
RewriteTops ==
    {ImportExpression("INT64", 1, "input_a", "other"),
     IntegerLiteralExpression("INT64", 1, 1),
     WhereShapeExpression(3),
     JoinShapeExpression(1, 1),
     WhereExpression("INT64", 1, 2, 3),
     PickExpression("INT64", 1, 2, 3),
     RangeExpression("INDEX", 1),
     JoinLeftExpression("INDEX", 1, 1, 1),
     JoinRightExpression("INDEX", 1, 1, 1)}
    \cup {BinaryExpression(kind, "INT64", 1, 2, 3) : kind \in BinaryKinds}

RewriteDags ==
    {<<ImportShapeExpression("input_a"),
       ImportExpression("INT64", 1, "input_a", "key"),
       ImportExpression("INT64", 1, "input_a", "value"),
       top>> : top \in RewriteTops}

RewriteInit ==
    /\ \E ns \in RewriteDags, rs \in SeqsUpTo(1..4, MaxRoots) :
           rewrite = [nodes |-> ns, roots |-> rs, pc |-> "call"]
    /\ LexerIdle
    /\ RunIdle
    /\ TraverseIdle
    /\ MergeIdle

\* The call returns, or raises.
RewriteMap ==
    /\ rewrite.pc = "call"
    /\ rewrite' = [rewrite EXCEPT !.pc = IF map(rewrite.nodes, rewrite.roots).error = ""
                                        THEN "returned" ELSE "raised"]
    /\ UNCHANGED <<run_vars, traverse_vars, merge, lexer>>

RewriteNext == RewriteMap

RewriteSpec == RewriteInit /\ [][RewriteNext]_vars

\* The children of an expression: its shape and its operands.
Children(node) ==
    {node.shape, node.source, node.mask, node.indexes, node.shape_a, node.shape_b,
     node.source_a, node.source_b} \ {0}

RECURSIVE Descendants(_, _)
Descendants(ns, S) ==
    IF UNION {Children(ns[e]) : e \in S} \subseteq S THEN S
    ELSE Descendants(ns, S \cup UNION {Children(ns[e]) : e \in S})

\* C25: map(identity, roots) returns for every DAG and every list of roots;
\* it has applied the function once to each expression that the roots reach
\* through shapes and operands, to an expression after its children, and it
\* returns the roots themselves.
C25_MapRewritesAll ==
    rewrite.pc \notin {"idle", "call"} =>
        LET outcome == map(rewrite.nodes, rewrite.roots)
        IN  /\ rewrite.pc = "returned"
            /\ Range(outcome.calls) = Descendants(rewrite.nodes, Range(rewrite.roots))
            /\ PairwiseDistinct(outcome.calls)
            /\ \A i, j \in 1..Len(outcome.calls) :
                   outcome.calls[j] \in Children(rewrite.nodes[outcome.calls[i]]) => j < i
            /\ \A k \in 1..Len(rewrite.roots) :
                   outcome.mapping[rewrite.roots[k]] = rewrite.roots[k]

\* The cache keys the command reads: those of the handler of its expression,
\* the traced array, the columns of the exported table.
CommandShapeReads(command) ==
    IF command.type \in {"EvaluateShape", "EvaluateArray"}
    THEN ShapeReads(nodes[command.expression])
    ELSE {}

CommandArrayReads(command) ==
    CASE command.type \in {"EvaluateShape", "EvaluateArray"} ->
             ArrayReads(nodes[command.expression])
      [] command.type = "TraceArray" -> {command.expression}
      [] command.type = "ExportTable" ->
             {command.columns[c].expression : c \in 1..Len(command.columns)}

\* The keys that the commands before position k store.
StoredBefore(k, type) ==
    {commands[j].expression : j \in {i \in 1..(k - 1) : commands[i].type = type}}

\* C26: the command that run() is about to execute reads only shape-cache and
\* array-cache keys that are in the caches, each stored by a command at an
\* earlier position of the list; no command ends with a KeyError.
C26_ReadsStoredEarlier ==
    /\ pc = "eval" =>
           /\ CommandShapeReads(commands[ip]) \subseteq DOMAIN shapes
           /\ CommandArrayReads(commands[ip]) \subseteq DOMAIN arrays
           /\ DOMAIN shapes \subseteq StoredBefore(ip, "EvaluateShape")
           /\ DOMAIN arrays \subseteq StoredBefore(ip, "EvaluateArray")
    /\ (pc = "error" /\ ip > 0) => error # "KeyError"

\* run() is about to pick the rows of a join: the command reads two arrays,
\* and earlier commands of the list have read shapes and stored them.
C26_Witness ==
    /\ pc = "eval"
    /\ commands[ip].type = "EvaluateArray"
    /\ nodes[commands[ip].expression].kind = "Pick"
    /\ \E j \in 1..(ip - 1) :
           /\ commands[j].type = "EvaluateArray"
           /\ nodes[commands[j].expression].kind = "JoinLeft"
    /\ \E j \in 1..(ip - 1) :
           /\ commands[j].type = "EvaluateShape"
           /\ nodes[commands[j].expression].kind = "JoinShape"

\* The shape nodes of the columns of a scope or of a program table.
ShapesOf(columns) == {nodes[columns[i].expression].shape : i \in 1..Len(columns)}

\* The shape nodes of the operands an array node was built from in its
\* scope: the node has their shape, except the column that a WHERE or a
\* JOIN derives, whose source and mask (or index pair) share a shape.
OperandsShareShape(node) ==
    CASE node.kind \in BinaryKinds ->
             /\ nodes[node.source_a].shape = node.shape
             /\ nodes[node.source_b].shape = node.shape
      [] node.kind = "Where" ->
             /\ nodes[node.source].shape = nodes[node.mask].shape
             /\ nodes[node.shape] = WhereShapeExpression(node.mask)
      [] node.kind = "Pick" -> nodes[node.indexes].shape = node.shape
      [] OTHER -> TRUE

\* C27: the columns of every scope that lowering has bound to a name or
\* recorded as a program table have one shape node; every node compiled in a
\* scope has the shape node of the operands it was compiled from; lowering
\* never ends with "Shape mismatch error".
C27_ScopesShareShape ==
    /\ error # "Shape mismatch error"
    /\ pc \in {"lower", "error"} =>
           /\ \A name \in DOMAIN bindings : Cardinality(ShapesOf(bindings[name])) <= 1
           /\ \A k \in 1..Len(tables) : Cardinality(ShapesOf(tables[k].columns)) <= 1
           /\ \A e \in 1..Len(nodes) : OperandsShareShape(nodes[e])

\* Every statement is lowered, and the scope of a select list holds a
\* literal next to a binary operation over the columns of the source.
C27_Witness ==
    /\ statement > Len(source)
    /\ pc = "lower"
    /\ \E k \in 1..Len(tables) :
           /\ Len(tables[k].columns) >= 2
           /\ \E i \in 1..Len(tables[k].columns) :
                  nodes[tables[k].columns[i].expression].kind \in LiteralKinds
           /\ \E i \in 1..Len(tables[k].columns) :
                  nodes[tables[k].columns[i].expression].kind \in BinaryKinds

\* C28: the mask of every WhereExpression and of every WhereShapeExpression
\* that lowering produces has dtype BOOL: lowering rejects a WHERE or ON
\* predicate of another dtype, so that no statement with one is lowered.
C28_MasksAreBool ==
    \A e \in 1..Len(nodes) :
        nodes[e].kind \in {"Where", "WhereShape"} => nodes[nodes[e].mask].dtype = "BOOL"

\* The evaluated pairs of index arrays of a join: the JoinLeft and the
\* JoinRight of one JoinShape, over the same two shapes.
JoinRightsOf(left) ==
    {e \in DOMAIN arrays :
        /\ nodes[e].kind = "JoinRight"
        /\ nodes[e].shape = nodes[left].shape
        /\ nodes[e].shape_a = nodes[left].shape_a
        /\ nodes[e].shape_b = nodes[left].shape_b}

JoinLeftsOf(right) ==
    {e \in DOMAIN arrays :
        /\ nodes[e].kind = "JoinLeft"
        /\ nodes[e].shape = nodes[right].shape
        /\ nodes[e].shape_a = nodes[right].shape_a
        /\ nodes[e].shape_b = nodes[right].shape_b}

\* The pairs that the command just executed has completed: the caches keep
\* what a command stored.
JoinIndexPairs ==
    IF ip <= 1 \/ commands[ip - 1].type # "EvaluateArray" THEN {}
    ELSE LET last == commands[ip - 1].expression
         IN  CASE nodes[last].kind = "JoinLeft" /\ last \in DOMAIN arrays ->
                      {<<last, right>> : right \in JoinRightsOf(last)}
               [] nodes[last].kind = "JoinRight" /\ last \in DOMAIN arrays ->
                      {<<left, last>> : left \in JoinLeftsOf(last)}
               [] OTHER -> {}

\* Pairs of indexes in lexicographic order.
PairBefore(p, q) == p[1] < q[1] \/ (p[1] = q[1] /\ p[2] < q[2])

\* C29: with shape_a evaluated to n and shape_b to m, JoinLeft and JoinRight
\* evaluate to arrays of n * m indexes, the length their JoinShape evaluates
\* to; JoinLeft holds each index of [0, n) m times in a row, JoinRight goes
\* through [0, m) n times; the pairs (JoinLeft[k], JoinRight[k]) are the
\* pairs of [0, n) x [0, m), each once, in lexicographic order.
C29_JoinIndexes ==
    \A p \in JoinIndexPairs :
        LET n == shapes[nodes[p[1]].shape_a]
            m == shapes[nodes[p[1]].shape_b]
            left == arrays[p[1]].data
            right == arrays[p[2]].data
        IN  /\ Len(left) = n * m
            /\ Len(right) = n * m
            /\ nodes[p[1]].shape \in DOMAIN shapes => shapes[nodes[p[1]].shape] = n * m
            /\ {<<left[k], right[k]>> : k \in 1..(n * m)} = (0..(n - 1)) \X (0..(m - 1))
            /\ \A k \in 1..(n * m - 1) :
                   PairBefore(<<left[k], right[k]>>, <<left[k + 1], right[k + 1]>>)
            /\ \A i \in 0..(n - 1) : \A j \in 1..m : left[i * m + j] = i
            /\ \A i \in 0..(n - 1) : \A j \in 1..m : right[i * m + j] = j - 1

\* The index arrays of a join of two tables of two rows are evaluated.
C29_Witness ==
    \E p \in JoinIndexPairs :
        /\ shapes[nodes[p[1]].shape_a] = 2
        /\ shapes[nodes[p[1]].shape_b] = 2
        /\ nodes[p[1]].shape \in DOMAIN shapes
        /\ Len(arrays[p[1]].data) = 4
        /\ Len(arrays[p[2]].data) = 4


\* The number of paths from x to `target` in the graph of the candidate
\* mappings that pass through non-roots only.
RECURSIVE CandidatePaths(_, _)
CandidatePaths(x, target) ==
    SumSeq([k \in 1..Len(merge.mappings) |->
               IF merge.mappings[k].src # x THEN 0
               ELSE IF merge.mappings[k].tgt = target THEN 1
               ELSE IF merge.mappings[k].tgt \in Range(roots) THEN 0
               ELSE CandidatePaths(merge.mappings[k].tgt, target)])

\* The mappings of the result that lead from one root to another.
ResultMappings(from, to) ==
    {k \in 1..Len(MergeResult(merge)) :
        MergeResult(merge)[k].src = from /\ MergeResult(merge)[k].tgt = to}

\* C30: in whatever order the non-roots are eliminated, no lookup and no
\* removal raises KeyError, and the result holds, from a root A to a root C,
\* one mapping for each path from A to C of the candidate graph through
\* non-roots only; a candidate between two roots is in the result as it was.
C30_OneMappingPerPath ==
    /\ merge.error = ""
    /\ MergeDone =>
           /\ \A from \in Range(roots), to \in Range(roots) :
                  Cardinality(ResultMappings(from, to)) = CandidatePaths(from, to)
           /\ \A k \in 1..Len(merge.mappings) :
                  (merge.mappings[k].src \in Range(roots) /\ merge.mappings[k].tgt \in Range(roots))
                      => merge.mappings[k] \in Range(MergeResult(merge))

\* Two roots with a candidate between them, a path through one non-root and
\* a path through two non-roots, which were eliminated in either order: the
\* result holds three mappings or more from the one root to the other.
C30_Witness ==
    /\ MergeDone
    /\ \E from \in Range(roots), to \in Range(roots) :
           /\ CandidatePaths(from, to) >= 3
           /\ \E k \in 1..Len(merge.mappings) :
                  merge.mappings[k].src = from /\ merge.mappings[k].tgt = to
           /\ \E k, l \in 1..Len(merge.mappings) :
                  /\ merge.mappings[k].src = from
                  /\ merge.mappings[k].tgt \notin Range(roots)
                  /\ merge.mappings[l].src = merge.mappings[k].tgt
                  /\ merge.mappings[l].tgt \notin Range(roots)

====
